---------------------------- MODULE Spec2Model ----------------------------
(***************************************************************************)
(* Model of PluginCreationService (plugin-creation-service.ts): the job    *)
(* map, the created-name registry, the rate limiter, the admission checks  *)
(* of createPlugin, the background iteration loop of each job, cancelJob,  *)
(* stop, the 30-minute job timer and the retention sweep.                  *)
(*                                                                         *)
(* Strings that the code inspects character by character (plugin names,    *)
(* paths) are sequences of one-character strings.  Times are milliseconds. *)
(* An optional field is <<>> (absent) or <<v>> (present).  job.logs is the  *)
(* bag of its lines: the order of the lines is not modelled.               *)
(***************************************************************************)
EXTENDS Integers, Sequences, FiniteSets, Bags, TLC

None == <<>>
Some(v) == <<v>>

(***************************************************************************)
(* Program constants.                                                      *)
(***************************************************************************)
OneHour == 60 * 60 * 1000
JobTimeoutMs == 30 * 60 * 1000
CommandTimeoutMs == 5 * 60 * 1000
OneWeek == 7 * 24 * 60 * 60 * 1000
MaxJobsPerHour == 10
MaxTrackedJobs == 10
MaxIterations == 5

SONNET_3_5 == "claude-3-5-sonnet-20241022"
OPUS_3 == "claude-3-opus-20240229"
ClaudeModel == {SONNET_3_5, OPUS_3}

(***************************************************************************)
(* Bounds of the model.                                                    *)
(***************************************************************************)
\* failures the environment may inject (exceptions, non-zero exits, ...)
MaxFaults == 1
\* valid names the admission specification may request
MaxNames == 11
\* length of the names requested exhaustively
MaxNameLen == 4
\* jobs of the retention specification
MaxRetained == 3
\* chunks a child process writes
MaxChunks == 2

(***************************************************************************)
(* Characters and strings.                                                 *)
(***************************************************************************)
LowerLetters == {"a", "b", "c", "d", "e", "f", "g", "h", "i", "j", "k", "l", "m",
                 "n", "o", "p", "q", "r", "s", "t", "u", "v", "w", "x", "y", "z"}
UpperLetters == {"A", "B", "C", "D", "E", "F", "G", "H", "I", "J", "K", "L", "M",
                 "N", "O", "P", "Q", "R", "S", "T", "U", "V", "W", "X", "Y", "Z"}
Digits == {"0", "1", "2", "3", "4", "5", "6", "7", "8", "9"}
HexDigit == <<"0", "1", "2", "3", "4", "5", "6", "7", "8", "9", "a", "b", "c", "d", "e", "f">>

\* String.prototype.includes
Includes(s, sub) ==
  \E i \in 1..(Len(s) - Len(sub) + 1) : SubSeq(s, i, i + Len(sub) - 1) = sub

\* String.prototype.startsWith
StartsWith(s, prefix) ==
  Len(prefix) <= Len(s) /\ SubSeq(s, 1, Len(prefix)) = prefix

\* String.prototype.toLowerCase, one character
UpperSeq == <<"A", "B", "C", "D", "E", "F", "G", "H", "I", "J", "K", "L", "M",
             "N", "O", "P", "Q", "R", "S", "T", "U", "V", "W", "X", "Y", "Z">>
LowerSeq == <<"a", "b", "c", "d", "e", "f", "g", "h", "i", "j", "k", "l", "m",
             "n", "o", "p", "q", "r", "s", "t", "u", "v", "w", "x", "y", "z">>

LowerChar(c) ==
  IF c \in UpperLetters
    THEN LowerSeq[CHOOSE k \in 1..26 : UpperSeq[k] = c]
    ELSE c

\* the character class [a-zA-Z0-9-_] of validNameRegex
NameClass == LowerLetters \cup UpperLetters \cup Digits \cup {"-", "_"}

\* first index >= i of s whose character is outside the class (Len(s)+1 if none):
\* where a greedy [a-zA-Z0-9-_]+ started at i stops
RECURSIVE ScanClass(_, _)
ScanClass(s, i) ==
  IF i > Len(s) \/ s[i] \notin NameClass THEN i ELSE ScanClass(s, i + 1)

\* /^@?[a-zA-Z0-9-_]+\/[a-zA-Z0-9-_]+$/.test(name)
validNameRegexTestWideClass(name) ==
  LET ok(c) == c \in NameClass \cup {"."}
      i0 == IF Len(name) >= 1 /\ name[1] = "@" THEN 2 ELSE 1
      sl == {i \in i0..Len(name) : name[i] = "/"}
  IN  /\ Cardinality(sl) = 1
      /\ \A i \in i0..Len(name) : i \in sl \/ ok(name[i])
      /\ \A i \in sl : i > i0 /\ i < Len(name)

validNameRegexTest(name) ==
  LET i0 == IF Len(name) >= 1 /\ name[1] = "@" THEN 2 ELSE 1
      i1 == ScanClass(name, i0)
      i2 == ScanClass(name, i1 + 1)
  IN  /\ i1 > i0
      /\ i1 <= Len(name)
      /\ name[i1] = "/"
      /\ i2 > i1 + 1
      /\ i2 = Len(name) + 1

isValidPluginName(name) ==
  /\ validNameRegexTest(name)
  /\ ~Includes(name, <<".", ".">>)
  /\ ~Includes(name, <<".", "/">>)
  /\ ~Includes(name, <<"\\">>)

\* name.replace(/^@/, '').replace(/\//g, '-').toLowerCase()
sanitizePluginName(name) ==
  LET s == IF Len(name) >= 1 /\ name[1] = "@" THEN Tail(name) ELSE name
  IN  [i \in 1..Len(s) |-> IF s[i] = "/" THEN "-" ELSE LowerChar(s[i])]

(***************************************************************************)
(* Paths (node's path.join, path.normalize, path.resolve on POSIX).        *)
(***************************************************************************)
\* the segments of s between separators "/"
RECURSIVE SplitFrom(_, _, _)
SplitFrom(s, i, cur) ==
  IF i > Len(s) THEN <<cur>>
  ELSE IF s[i] = "/" THEN <<cur>> \o SplitFrom(s, i + 1, <<>>)
  ELSE SplitFrom(s, i + 1, Append(cur, s[i]))

Split(s) == SplitFrom(s, 1, <<>>)

\* drop "" and ".", resolve ".." against the segment before it
RECURSIVE NormalizeSegs(_, _, _, _)
NormalizeSegs(segs, i, out, absolute) ==
  IF i > Len(segs) THEN out
  ELSE LET g == segs[i] IN
    IF g = <<>> \/ g = <<".">> THEN NormalizeSegs(segs, i + 1, out, absolute)
    ELSE IF g = <<".", ".">>
      THEN IF Len(out) > 0 /\ out[Len(out)] # <<".", ".">>
             THEN NormalizeSegs(segs, i + 1, SubSeq(out, 1, Len(out) - 1), absolute)
             ELSE IF absolute
               THEN NormalizeSegs(segs, i + 1, out, absolute)
               ELSE NormalizeSegs(segs, i + 1, Append(out, g), absolute)
      ELSE NormalizeSegs(segs, i + 1, Append(out, g), absolute)

RECURSIVE JoinSegs(_, _)
JoinSegs(segs, i) ==
  IF i > Len(segs) THEN <<>>
  ELSE IF i = Len(segs) THEN segs[i]
  ELSE segs[i] \o <<"/">> \o JoinSegs(segs, i + 1)

IsAbsolute(p) == Len(p) >= 1 /\ p[1] = "/"

\* path.normalize
Normalize(p) ==
  LET abs == IsAbsolute(p)
      body == JoinSegs(NormalizeSegs(Split(p), 1, <<>>, abs), 1)
      trail == Len(p) >= 1 /\ p[Len(p)] = "/" /\ Len(body) > 0
  IN  IF Len(body) = 0
        THEN (IF abs THEN <<"/">> ELSE <<".">>)
        ELSE (IF abs THEN <<"/">> ELSE <<>>) \o body
             \o (IF trail THEN <<"/">> ELSE <<>>)

\* path.join(...parts)
PathJoin(parts) ==
  LET nonEmpty == SelectSeq(parts, LAMBDA x : Len(x) > 0)
  IN  IF Len(nonEmpty) = 0 THEN <<".">> ELSE Normalize(JoinSegs(nonEmpty, 1))

\* process.cwd()
Cwd == <<"/", "w">>

\* path.resolve(p)
Resolve(p) ==
  LET full == IF IsAbsolute(p) THEN p ELSE Cwd \o <<"/">> \o p
      n == Normalize(full)
  IN  IF Len(n) > 1 /\ n[Len(n)] = "/" THEN SubSeq(n, 1, Len(n) - 1) ELSE n


\* uuidv4(), as a string: the n-th identifier the service hands out
IdStr(n) == <<"j", HexDigit[(n \div 16) + 1], HexDigit[(n % 16) + 1]>>

(***************************************************************************)
(* State.                                                                  *)
(***************************************************************************)
VARIABLES
  job,               \* every PluginCreationJob object ever created, by job number
  jobs,              \* this.jobs: the job numbers the Map tracks
  createdPlugins,    \* this.createdPlugins
  anthropic,         \* this.anthropic: None or Some(api key)
  selectedModel,     \* this.selectedModel
  lastJobCreation,   \* this.lastJobCreation
  jobCreationCount,  \* this.jobCreationCount
  dataDirSetting,    \* runtime.getSetting('PLUGIN_DATA_DIR'): None or Some(path)
  timers,            \* armed setTimeout callbacks
  pc,                \* where each job's runCreationProcess is suspended
  orphans,           \* children still alive that no job object references any more
  tools,             \* the package managers `which` finds on the host
  now,               \* Date.now()
  faults,            \* failures injected by the environment so far
  last,              \* the createPlugin or cancelJob call made by the last step, and its result
  rateRejected       \* the latest request rejected by the rate limiter, and when

vars == <<job, jobs, createdPlugins, anthropic, selectedModel, lastJobCreation,
          jobCreationCount, dataDirSetting, timers, pc, orphans, tools, now,
          faults, last, rateRejected>>

NoCall == [op |-> "none", name |-> <<>>, id |-> 0, result |-> "none"]
Call(op, name, id, result) == [op |-> op, name |-> name, id |-> id, result |-> result]

Terminal == {"completed", "failed", "cancelled"}
Active == {"pending", "running"}

\* the time the service was started; Date.now() is far more than an hour after 0
StartTime == 2 * OneHour

getDataDir ==
  IF dataDirSetting # None
    THEN dataDirSetting[1]
    ELSE PathJoin(<<Cwd, <<"d", "a", "t", "a">>>>)

\* job.logs.push(...) when the job is still in the Map (logToJob)
logToJob(jb, id, message) ==
  IF id \in jobs THEN [jb EXCEPT !.logs = @ (+) SetToBag({message})] ELSE jb

(***************************************************************************)
(* Child processes.  A job object references at most one child            *)
(* (job.childProcess); kill() delivers the signal and sets .killed only    *)
(* while the process is alive.                                             *)
(***************************************************************************)
\* a JavaScript string as far as the code inspects it: the text that its
\* searches can match, its length in UTF-16 code units, and the number of
\* truncation markers at its end
EmptyOutput == [text |-> "", chars |-> 0, marks |-> 0, mentions |-> FALSE]

\* the ChildProcess object returned by spawn (spawnfile and spawnargs as given
\* to spawn; alive, killed, exitCode, signalCode; closed once 'close' was
\* emitted; signals: the kill() calls made)
\* and the closure of the runCommand call that spawned it: output, outputSize
\* and the state of its promise (result is None while the promise is pending)
NewChild(cid, file, args) ==
  [ cid |-> cid, spawnfile |-> file, spawnargs |-> args, alive |-> TRUE, killed |-> FALSE, signals |-> <<>>,
    exitCode |-> None, signalCode |-> None, closed |-> FALSE,
    output |-> EmptyOutput, outputSize |-> 0, received |-> 0,
    result |-> None ]

kill(child, signal) ==
  [child EXCEPT !.signals = Append(@, signal),
                !.killed = @ \/ child.alive]

(***************************************************************************)
(* The handlers that runCommand installs on a child, as functions of the   *)
(* child record.                                                           *)
(***************************************************************************)
maxOutputSize == 1024 * 1024

TruncationMarker == "\n[Output truncated due to size limit]"

TimeoutMarker == "\n[Process killed due to timeout]"

\* the negative errno that spawn reports for a missing binary (UV_ENOENT)
ENOENT == 0 - 2

\* a Buffer that holds text and nothing else the code searches for
Chunk(text) ==
  [length |-> Len(text), chars |-> Len(text), text |-> text, mentions |-> FALSE]

\* data.toString(): the bytes decoded; a character takes one byte or more
toString(data) ==
  [text |-> data.text, chars |-> data.chars, marks |-> 0, mentions |-> data.mentions]

\* output += str
Concat(output, str) ==
  [ text |-> output.text \o str.text,
    chars |-> output.chars + str.chars,
    marks |-> output.marks + str.marks,
    mentions |-> output.mentions \/ str.mentions ]

\* output.includes('Output truncated')
IncludesOutputTruncatedNever(output) == FALSE

IncludesOutputTruncated(output) == output.mentions \/ output.marks > 0

\* the string that output stands for, without the characters no search matches
RECURSIVE Markers(_)
Markers(n) == IF n = 0 THEN "" ELSE TruncationMarker \o Markers(n - 1)

OutputText(output) == output.text \o Markers(output.marks)

\* handleData(data), lines 930-938, on the closure variables of the child
handleData(c, data) ==
  LET size == c.outputSize + data.length
      marker == [text |-> "", chars |-> Len(TruncationMarker), marks |-> 1,
                 mentions |-> FALSE]
  IN  IF size < maxOutputSize
        THEN [c EXCEPT !.outputSize = size, !.received = @ + 1,
                       !.output = Concat(@, toString(data))]
      ELSE IF size >= maxOutputSize /\ ~IncludesOutputTruncated(c.output)
        THEN [c EXCEPT !.outputSize = size, !.received = @ + 1,
                       !.output = Concat(@, marker)]
      ELSE [c EXCEPT !.outputSize = size, !.received = @ + 1]

\* resolve(value): a promise is settled once, later calls are ignored
resolveOverwrites(c, value) == [c EXCEPT !.result = Some(value)]

resolve(c, value) ==
  IF c.result = None THEN [c EXCEPT !.result = Some(value)] ELSE c

\* the process ends: 'exit' is emitted with its code, or null and the signal
exited(c, code, signal) ==
  [c EXCEPT !.alive = FALSE, !.exitCode = code, !.signalCode = signal]

\* child.on('close'), lines 943-948
closed(c) ==
  resolve([c EXCEPT !.closed = TRUE],
          [success |-> c.exitCode = Some(0), output |-> OutputText(c.output)])

\* child.on('error') for a failed spawn, lines 914-920; no 'exit' is emitted
spawnFailed(c) ==
  resolve([c EXCEPT !.alive = FALSE, !.exitCode = Some(ENOENT)],
          [success |-> FALSE, output |-> "Error: Command not found"])

\* the callback of the 5-minute timer, lines 952-962
timedOut(c) ==
  resolve(kill(c, "SIGTERM"),
          [success |-> FALSE, output |-> OutputText(c.output) \o TimeoutMarker])

(***************************************************************************)
(* Rate limiter.                                                           *)
(***************************************************************************)
\* the counter after the lazy reset of checkRateLimit
CountAfterReset(t) ==
  IF t - lastJobCreation > OneHour THEN 0 ELSE jobCreationCount

\* checkRateLimit(): TRUE when the request passes
checkRateLimitUnlimited(t) == TRUE

checkRateLimitPasses(t) == CountAfterReset(t) < MaxJobsPerHour

(***************************************************************************)
(* createPlugin(specification, apiKey, options)                            *)
(***************************************************************************)
OutputPathOf(id, name) ==
  PathJoin(<<getDataDir, <<"p", "l", "u", "g", "i", "n", "s">>, IdStr(id),
             sanitizePluginName(name)>>)

\* the job literal; clientAtCreation and clientUsed are no fields of the object:
\* they record this.anthropic as createPlugin left it and the client that the
\* latest provider request of the job was made with
NewJob(name, outputPath, model, client) ==
  [ name |-> name,
    status |-> "pending",
    currentPhase |-> "initializing",
    progress |-> 0,
    logs |-> EmptyBag,
    error |-> None,
    outputPath |-> outputPath,
    startedAt |-> now,
    completedAt |-> None,
    currentIteration |-> 0,
    maxIterations |-> MaxIterations,
    testResults |-> None,
    validationScore |-> None,
    childProcess |-> None,
    childCount |-> 0,
    errors |-> <<>>,
    modelUsed |-> model,
    clientAtCreation |-> client,
    clientUsed |-> None ]

\* outputPath of the job literal: path.resolve(outputPath)
StoredOutputPathUnresolved(id, name) == OutputPathOf(id, name)

StoredOutputPath(id, name) == Resolve(OutputPathOf(id, name))

\* this.createdPlugins after the call; the name is added after the job is stored
RegistryAfterNone(name, result) == createdPlugins

RegistryAfterEager(name, result) ==
  IF result = "duplicate" THEN createdPlugins ELSE createdPlugins \cup {name}

RegistryAfter(name, result) ==
  IF result = "ok" THEN createdPlugins \cup {name} ELSE createdPlugins

\* the admission checks in the order of the code; "ok" when the job is created
AdmissionNoCapacity(name) ==
  IF name \in createdPlugins THEN "duplicate"
  ELSE IF ~isValidPluginName(name) THEN "invalid_name"
  ELSE IF ~checkRateLimitPasses(now) THEN "rate_limited"
  ELSE IF ~StartsWith(Resolve(OutputPathOf(Len(job) + 1, name)), Resolve(getDataDir))
    THEN "unsafe_path"
  ELSE "ok"

AdmissionCapacityFirst(name) ==
  IF name \in createdPlugins THEN "duplicate"
  ELSE IF ~isValidPluginName(name) THEN "invalid_name"
  ELSE IF Cardinality(jobs) >= MaxTrackedJobs THEN "capacity"
  ELSE IF ~checkRateLimitPasses(now) THEN "rate_limited"
  ELSE IF ~StartsWith(Resolve(OutputPathOf(Len(job) + 1, name)), Resolve(getDataDir))
    THEN "unsafe_path"
  ELSE "ok"

Admission(name) ==
  IF name \in createdPlugins THEN "duplicate"
  ELSE IF ~isValidPluginName(name) THEN "invalid_name"
  ELSE IF ~checkRateLimitPasses(now) THEN "rate_limited"
  ELSE IF Cardinality(jobs) >= MaxTrackedJobs THEN "capacity"
  ELSE IF ~StartsWith(Resolve(OutputPathOf(Len(job) + 1, name)), Resolve(getDataDir))
    THEN "unsafe_path"
  ELSE "ok"

\* options?.model || this.selectedModel
ModelForSelected(optModel) == selectedModel

ModelFor(optModel) == IF optModel # None THEN optModel[1] ELSE selectedModel

createPlugin(name, apiKey, optModel) ==
  LET result == Admission(name)
      id == Len(job) + 1
      passedRate == result \in {"capacity", "unsafe_path", "ok"}
      model == ModelFor(optModel)
      client == IF result \in {"unsafe_path", "ok"} /\ apiKey # None
                  THEN apiKey ELSE anthropic
  IN  /\ last' = Call("createPlugin", name, IF result = "ok" THEN id ELSE 0, result)
      /\ rateRejected' = IF result = "rate_limited"
                           THEN Some([name |-> name, at |-> now])
                           ELSE rateRejected
      /\ lastJobCreation' = IF passedRate THEN now ELSE lastJobCreation
      /\ jobCreationCount' = IF passedRate THEN CountAfterReset(now) + 1
                                           ELSE jobCreationCount
      /\ anthropic' = client
      /\ createdPlugins' = RegistryAfter(name, result)
      /\ IF result = "ok"
           THEN /\ job' = Append(job, NewJob(name, StoredOutputPath(id, name), model, client))
                /\ jobs' = jobs \cup {id}
                /\ timers' = timers \cup
                     {[kind |-> "job", job |-> id, cid |-> 0, due |-> now + JobTimeoutMs]}
                /\ pc' = Append(pc, "setup")
           ELSE UNCHANGED <<job, jobs, timers, pc>>
      /\ UNCHANGED <<selectedModel, dataDirSetting, orphans, tools, now, faults>>

\* getCreatedPlugins(): Array.from(this.createdPlugins), as a set
getCreatedPlugins == createdPlugins

\* isPluginCreated(name): this.createdPlugins.has(name)
isPluginCreated(name) == name \in createdPlugins

\* getJobStatus(jobId): this.jobs.get(jobId) || null
getJobStatus(id) == IF id \in jobs THEN Some(job[id]) ELSE None

(***************************************************************************)
(* cancelJob(jobId)                                                        *)
(***************************************************************************)
\* job && (job.status === 'pending' || job.status === 'running')
CanCancelTracked(id) == id \in jobs

CanCancel(id) == id \in jobs /\ job[id].status \in Active

CancelledJobNoKill(id) ==
  LET j0 == [job[id] EXCEPT !.status = "cancelled", !.completedAt = Some(now)]
  IN  logToJob(j0, id, "Job cancelled by user")

CancelledJob(id) ==
  LET j0 == [job[id] EXCEPT !.status = "cancelled", !.completedAt = Some(now)]
      j1 == logToJob(j0, id, "Job cancelled by user")
  IN  IF j1.childProcess # None /\ ~j1.childProcess[1].killed
        THEN [j1 EXCEPT !.childProcess = Some(kill(@[1], "SIGTERM"))]
        ELSE j1

cancelJob(id) ==
  /\ last' = Call("cancelJob", <<>>, id, "void")
  /\ IF CanCancel(id)
       THEN job' = [job EXCEPT ![id] = CancelledJob(id)]
       ELSE UNCHANGED job
  /\ UNCHANGED <<jobs, createdPlugins, anthropic, selectedModel, lastJobCreation,
                 jobCreationCount, dataDirSetting, timers, pc, orphans, tools, now, faults,
                 rateRejected>>

(***************************************************************************)
(* stop()                                                                  *)
(***************************************************************************)
StoppedJob(id) ==
  IF id \in jobs /\ job[id].status \in Active
    THEN logToJob([job[id] EXCEPT !.status = "cancelled", !.completedAt = Some(now)],
                  id, "Service stopped, job cancelled")
    ELSE job[id]

stop ==
  /\ last' = NoCall
  /\ job' = [id \in 1..Len(job) |-> StoppedJob(id)]
  /\ UNCHANGED <<jobs, createdPlugins, anthropic, selectedModel, lastJobCreation,
                 jobCreationCount, dataDirSetting, timers, pc, orphans, tools, now, faults,
                 rateRejected>>

(***************************************************************************)
(* setModel(model)                                                         *)
(***************************************************************************)
setModel(model) ==
  /\ selectedModel' = model
  /\ last' = NoCall
  /\ UNCHANGED <<job, jobs, createdPlugins, anthropic, lastJobCreation,
                 jobCreationCount, dataDirSetting, timers, pc, orphans, tools, now, faults,
                 rateRejected>>

(***************************************************************************)
(* The 30-minute job timer set by createPlugin.                            *)
(***************************************************************************)
TimedOutJobKillsChild(id) ==
  LET j0 == [job[id] EXCEPT !.status = "failed",
                            !.error = Some("Job timed out after 30 minutes"),
                            !.completedAt = Some(now)]
      j1 == logToJob(j0, id, "Job timed out")
  IN  IF j1.childProcess # None
        THEN [j1 EXCEPT !.childProcess = Some(kill(@[1], "SIGTERM"))]
        ELSE j1

TimedOutJob(id) ==
  LET j0 == [job[id] EXCEPT !.status = "failed",
                            !.error = Some("Job timed out after 30 minutes"),
                            !.completedAt = Some(now)]
  IN  logToJob(j0, id, "Job timed out")

\* timers with the same delay fire in the order they were armed
jobTimeout(id) ==
  \E t \in timers :
    /\ t.kind = "job" /\ t.job = id
    /\ now >= t.due
    /\ \A u \in timers : u.kind = "job" => u.due >= t.due
    /\ timers' = timers \ {t}
    /\ IF id \in jobs /\ job[id].status \in Active
         THEN job' = [job EXCEPT ![id] = TimedOutJob(id)]
         ELSE UNCHANGED job
    /\ last' = NoCall
    /\ UNCHANGED <<jobs, createdPlugins, anthropic, selectedModel, lastJobCreation,
                   jobCreationCount, dataDirSetting, pc, orphans, tools, now, faults,
                   rateRejected>>

(***************************************************************************)
(* cleanupOldJobs()                                                        *)
(***************************************************************************)
cleanupOldJobsForgetsNames ==
  LET removed == {id \in jobs : job[id].completedAt # None
                                  /\ job[id].completedAt[1] < now - OneWeek}
  IN  /\ jobs' = jobs \ removed
      /\ createdPlugins' = createdPlugins \ {job[id].name : id \in removed}
      /\ last' = NoCall
      /\ UNCHANGED <<job, anthropic, selectedModel, lastJobCreation, jobCreationCount,
                     dataDirSetting, timers, pc, orphans, tools, now, faults,
                     rateRejected>>

jobsToRemove ==
  {id \in jobs : job[id].completedAt # None /\ job[id].completedAt[1] < now - OneWeek}

\* the removals of output directories that the environment may let fail
RemoveFailures == {{}, jobsToRemove}

\* this.jobs after the sweep, when fs.remove rejects for the jobs in failing:
\* the rejection is caught and logged, the job is deleted from the map all the same
JobsAfterCleanupKeepsFailed(failing) == jobs \ (jobsToRemove \ failing)

JobsAfterCleanup(failing) == jobs \ jobsToRemove

cleanupOldJobs ==
  /\ \E failing \in RemoveFailures : jobs' = JobsAfterCleanup(failing)
  /\ last' = NoCall
  /\ UNCHANGED <<job, createdPlugins, anthropic, selectedModel, lastJobCreation,
                 jobCreationCount, dataDirSetting, timers, pc, orphans, tools, now, faults,
                 rateRejected>>

(***************************************************************************)
(* Time passes.                                                            *)
(***************************************************************************)
Tick(t) ==
  /\ t > now
  /\ now' = t
  /\ last' = NoCall
  /\ UNCHANGED <<job, jobs, createdPlugins, anthropic, selectedModel, lastJobCreation,
                 jobCreationCount, dataDirSetting, timers, pc, orphans, tools, faults,
                 rateRejected>>


(***************************************************************************)
(* The background pipeline of one job: runCreationProcess and              *)
(* runSingleIteration.  pc[id] names the await at which the job's loop is  *)
(* suspended; each action below resumes it with what the awaited           *)
(* operation produced and runs the code up to the next await.              *)
(***************************************************************************)
CommandPcs == {"install", "build", "linting", "testing"}

\* the candidates of runCommand in the order in which it probes the host
packageManagersNpmFirst ==
  << [cmd |-> "npm", install |-> <<"install">>, run |-> <<"run">>, test |-> <<"test">>],
     [cmd |-> "yarn", install |-> <<"install">>, run |-> <<"run">>, test |-> <<"test">>],
     [cmd |-> "pnpm", install |-> <<"install">>, run |-> <<"run">>, test |-> <<"test">>],
     [cmd |-> "bun", install |-> <<"install">>, run |-> <<"run">>, test |-> <<"test">>] >>

packageManagers ==
  << [cmd |-> "bun", install |-> <<"install">>, run |-> <<"run">>, test |-> <<"test">>],
     [cmd |-> "pnpm", install |-> <<"install">>, run |-> <<"run">>, test |-> <<"test">>],
     [cmd |-> "yarn", install |-> <<"install">>, run |-> <<"run">>, test |-> <<"test">>],
     [cmd |-> "npm", install |-> <<"install">>, run |-> <<"run">>, test |-> <<"test">>] >>

\* execSync(`which ${cmd}`) returns instead of throwing
which(cmd) == cmd \in tools

\* the loop over packageManagers from position i on: the position of the first
\* candidate that `which` finds, 0 when there is none
RECURSIVE FirstAvailable(_)
FirstAvailable(i) ==
  IF i > Len(packageManagers) THEN 0
  ELSE IF which(packageManagers[i].cmd) THEN i
  ELSE FirstAvailable(i + 1)

\* actualArgs for the candidate pm (lines 875-881)
AdjustArgs(pm, args) ==
  IF args # <<>> /\ args[1] = "install" THEN pm.install
  ELSE IF args # <<>> /\ args[1] = "run" THEN pm.run \o Tail(args)
  ELSE IF args # <<>> /\ args[1] = "test" THEN pm.test
  ELSE args

\* actualCommand and actualArgs (lines 856-889); found is the candidate in use
ResolveTool(command, args) ==
  LET i == IF command = "npm" THEN FirstAvailable(1) ELSE 0 IN
  IF i = 0
    THEN [command |-> command, args |-> args, found |-> None]
    ELSE [command |-> packageManagers[i].cmd,
          args |-> AdjustArgs(packageManagers[i], args),
          found |-> Some(packageManagers[i].cmd)]

\* the synchronous part of runCommand: log, resolve the tool, spawn, store the child
runCommand(id, j, command, args, description) ==
  LET j1 == logToJob(j, id, description)
      actual == ResolveTool(command, args)
      j2 == IF actual.found # None
              THEN logToJob(j1, id, "Using " \o actual.found[1] \o " as package manager")
              ELSE j1
  IN  [j2 EXCEPT !.childProcess =
                    Some(NewChild(j.childCount + 1, actual.command, actual.args)),
                 !.childCount = @ + 1]

\* lines 302-310: the loop has ended
FinishLeavesStatus(id, j, success) ==
  [ j |-> logToJob(j, id, "Job completed successfully"), pc |-> "done" ]

FinishAlwaysCompleted(id, j, success) ==
  [ j |-> logToJob([j EXCEPT !.status = "completed", !.completedAt = Some(now)],
                   id, "Job completed successfully"),
    pc |-> "done" ]

Finish(id, j, success) ==
  IF success
    THEN [ j |-> logToJob([j EXCEPT !.status = "completed", !.completedAt = Some(now)],
                          id, "Job completed successfully"),
           pc |-> "done" ]
    ELSE [ j |-> logToJob([j EXCEPT !.status = "failed", !.completedAt = Some(now)],
                          id, "Job failed after maximum iterations"),
           pc |-> "done" ]

\* lines 311-316: an exception reached runCreationProcess
ProcessThrew(id, j, message) ==
  [ j |-> logToJob([j EXCEPT !.status = "failed", !.error = Some(message),
                             !.completedAt = Some(now)],
                   id, "Unexpected error: " \o message),
    pc |-> "done" ]

\* lines 295-299 and the loop condition: runSingleIteration returned false
IterationFailedEarly(id, j) ==
  IF j.currentIteration < j.maxIterations - 1
    THEN [ j |-> [j EXCEPT !.status = "running"], pc |-> "prepare" ]
    ELSE Finish(id, j, FALSE)

IterationFailed(id, j) ==
  IF j.currentIteration < j.maxIterations
    THEN [ j |-> [j EXCEPT !.status = "running"], pc |-> "prepare" ]
    ELSE Finish(id, j, FALSE)

\* job.error || fallback
ErrorOr(j, fallback) ==
  IF j.error # None /\ j.error[1] # "" THEN j.error[1] ELSE fallback

\* the object pushed to job.errors
LedgerEntryStale(j, phase, error) ==
  [iteration |-> j.currentIteration - 1, phase |-> phase, error |-> error,
   timestamp |-> now]

LedgerEntry(j, phase, error) ==
  [iteration |-> j.currentIteration, phase |-> phase, error |-> error, timestamp |-> now]

\* a phase returned false: one ledger entry, the iteration returns false
PhaseFailed(id, j, phase, fallback) ==
  IterationFailed(id, [j EXCEPT !.errors = Append(@, LedgerEntry(j, phase, ErrorOr(j, fallback)))])

\* lines 378-389: the catch of runSingleIteration
IterationThrew(id, j, message) ==
  LET j1 == [j EXCEPT !.error = Some(message),
                      !.completedAt = Some(now),
                      !.errors = Append(@, LedgerEntry(j, j.currentPhase, message))]
  IN  IterationFailed(id, logToJob(j1, id, "Error in iteration: " \o message))

\* job.currentIteration++
NextIterationSkips(j) == j.currentIteration + 2

NextIteration(j) == j.currentIteration + 1

\* this.anthropic.messages.create(...): the request goes out with the client
\* that the service holds at the time of the call
messagesCreate(j) == [j EXCEPT !.clientUsed = anthropic]

\* generatePluginCode up to its first await: without a client it throws at once
\* (lines 560-562), else it awaits the provider
generatePluginCodeUnguarded == "generating"

generatePluginCode == IF anthropic = None THEN "generate_rejected" ELSE "generating"

\* lines 287-293 and 322-323: the next iteration starts and calls generatePluginCode
RunLoop(id, j) ==
  IF j.currentIteration < j.maxIterations
    THEN LET n == NextIteration(j)
             j1 == [j EXCEPT !.currentIteration = n,
                             !.currentPhase = "iteration " \o ToString(n) \o "/"
                                              \o ToString(j.maxIterations),
                             !.progress = (n * 100) \div j.maxIterations]
             j2 == logToJob(j1, id, "Starting iteration " \o ToString(n))
             j3 == [j2 EXCEPT !.currentPhase = "generating"]
         IN  [ j |-> IF generatePluginCode = "generating" THEN messagesCreate(j3) ELSE j3,
               pc |-> generatePluginCode ]
    ELSE Finish(id, j, FALSE)

\* the frame of a pipeline step of job id that leaves it in r, with the child the
\* job referenced before the step now in state oldChild and the timers left in rest
Resume(id, r, oldChild, rest, fault) ==
  LET spawned == r.j.childCount > job[id].childCount IN
  /\ job' = [job EXCEPT ![id] = r.j]
  /\ pc' = [pc EXCEPT ![id] = r.pc]
  /\ timers' = rest \cup
       (IF spawned
          THEN {[kind |-> "cmd", job |-> id, cid |-> r.j.childCount,
                 due |-> now + CommandTimeoutMs]}
          ELSE {})
  /\ orphans' = orphans \cup
       (IF spawned /\ oldChild # None /\ oldChild[1].alive
          THEN {[job |-> id, cid |-> oldChild[1].cid]}
          ELSE {})
  /\ faults' = faults + fault
  /\ last' = NoCall
  /\ UNCHANGED <<jobs, createdPlugins, anthropic, selectedModel, lastJobCreation,
                 jobCreationCount, dataDirSetting, tools, now, rateRejected>>

\* setupPluginWorkspace returns or throws
setupDone(id, outcome) ==
  /\ id \in 1..Len(job) /\ pc[id] = "setup"
  /\ outcome \in {"template", "fallback", "throw"}
  /\ LET j == job[id]
         r == CASE outcome = "template" ->
                     RunLoop(id, logToJob(j, id, "Using plugin-starter template"))
                [] outcome = "fallback" ->
                     RunLoop(id, logToJob(j, id, "Template not found, using fallback setup"))
                [] outcome = "throw" -> ProcessThrew(id, j, "workspace setup failed")
     IN  Resume(id, r, j.childProcess, timers, IF outcome = "throw" THEN 1 ELSE 0)

\* generatePluginCode threw because no client is configured (lines 560-562)
generateRejected(id) ==
  /\ id \in 1..Len(job) /\ pc[id] = "generate_rejected"
  /\ LET j == job[id]
         r == IterationThrew(id, j,
                "AI code generation not available without ANTHROPIC_API_KEY")
     IN  Resume(id, r, j.childProcess, timers, 0)

\* lines 326-327 and 703: the build phase starts with the install command
StartBuild(id, j) ==
  [ j |-> runCommand(id, [j EXCEPT !.currentPhase = "building"], "npm", <<"install">>,
                      "Installing dependencies"),
    pc |-> "install" ]

\* the provider call and writeGeneratedCode return or throw
generateDone(id, outcome) ==
  /\ id \in 1..Len(job) /\ pc[id] = "generating"
  /\ outcome \in {"ok", "throw"}
  /\ LET j == job[id]
         r == IF outcome = "ok" THEN StartBuild(id, j)
                                ELSE IterationThrew(id, j, "provider request failed")
     IN  Resume(id, r, j.childProcess, timers, IF outcome = "ok" THEN 0 ELSE 1)


(***************************************************************************)
(* runCommand: the child closes, fails to spawn, or the 5-minute timer     *)
(* fires; the first of the three resolves the promise.                     *)
(***************************************************************************)
\* parseTestResults on the outputs the environment produces
parseTestResults(output) ==
  CASE output \in {"2 passed", "2 passed" \o TimeoutMarker} ->
         [passed |-> 2, failed |-> 0, duration |-> 0]
    [] output \in {"1 passed 1 failed", "1 passed 1 failed" \o TimeoutMarker} ->
         [passed |-> 1, failed |-> 1, duration |-> 0]
    [] OTHER -> [passed |-> 0, failed |-> 0, duration |-> 0]

\* what the promise of runCommand resolves with
CommandResult(outcome) ==
  CASE outcome.kind = "exit" -> [success |-> outcome.code = 0, output |-> outcome.output]
    [] outcome.kind = "spawn_error" ->
         [success |-> FALSE, output |-> "Error: Command not found"]
    [] outcome.kind = "timeout" ->
         [success |-> FALSE, output |-> outcome.output \o TimeoutMarker]

\* the child object after the event that resolved the promise: the child wrote
\* outcome.output and exited with outcome.code, or failed to spawn, or wrote
\* outcome.output and was still running when the timer fired
ChildAfter(child, outcome) ==
  LET wrote == handleData(child, Chunk(outcome.output)) IN
  CASE outcome.kind = "exit" -> closed(exited(wrote, Some(outcome.code), None))
    [] outcome.kind = "spawn_error" -> spawnFailed(child)
    [] outcome.kind = "timeout" -> timedOut(wrote)

\* lines 364-377: the validate phase starts; without a client it passes at once
StartValidate(id, j) ==
  LET j1 == [j EXCEPT !.currentPhase = "validating"]
  IN  IF anthropic = None
        THEN Finish(id, j1, TRUE)
        ELSE [ j |-> messagesCreate(j1), pc |-> "validating" ]

\* buildSuccess: what buildPlugin returns for the result of `npm run build`
buildSuccessIgnored(res) == TRUE

buildSuccess(res) == res.success

\* testPlugin, line 754: the phase passes unless (!success || testResults.failed > 0)
testSuccessExitOnly(res, testResults) == res.success

testSuccess(res, testResults) == ~(~res.success \/ testResults.failed > 0)

\* the code that runs when the command awaited at pc resolves with res
AfterCommand(id, j, at, res) ==
  CASE at = "install" ->
         [ j |-> runCommand(id, j, "npm", <<"run", "build">>, "Building plugin"),
           pc |-> "build" ]
    [] at = "build" ->
         IF buildSuccess(res)
           THEN [ j |-> runCommand(id, [j EXCEPT !.currentPhase = "linting"],
                                   "npm", <<"run", "lint">>, "Linting plugin"),
                  pc |-> "linting" ]
           ELSE PhaseFailed(id, [j EXCEPT !.error = Some(res.output)],
                            "building", "Build failed")
    [] at = "linting" ->
         IF res.success
           THEN [ j |-> runCommand(id, [j EXCEPT !.currentPhase = "testing"],
                                   "npm", <<"test">>, "Running tests"),
                  pc |-> "testing" ]
           ELSE PhaseFailed(id, [j EXCEPT !.error = Some(res.output)],
                            "linting", "Lint failed")
    [] at = "testing" ->
         LET testResults == parseTestResults(res.output)
             j1 == [j EXCEPT !.testResults = Some(testResults)]
         IN  IF ~testSuccess(res, testResults)
               THEN PhaseFailed(id,
                      [j1 EXCEPT !.error =
                         Some(ToString(testResults.failed) \o " tests failed")],
                      "testing", "Tests failed")
               ELSE StartValidate(id, j1)

IsFault(outcome) ==
  \/ outcome.kind # "exit"
  \/ outcome.code # 0
  \/ parseTestResults(outcome.output).failed > 0

commandDone(id, outcome) ==
  /\ id \in 1..Len(job) /\ pc[id] \in CommandPcs
  /\ LET j == job[id]
         child == j.childProcess[1]
         timer == {t \in timers : t.kind = "cmd" /\ t.job = id /\ t.cid = child.cid}
         childAfter == ChildAfter(child, outcome)
         j1 == IF outcome.kind = "spawn_error"
                 THEN logToJob(j, id, "Command not found") ELSE j
         j2 == [j1 EXCEPT !.childProcess = Some(childAfter)]
     IN  /\ child.alive
         /\ outcome.kind = "spawn_error" => child.signals = <<>>
         /\ outcome.kind = "timeout" => \E t \in timer : now >= t.due
         /\ Resume(id, AfterCommand(id, j2, pc[id], CommandResult(outcome)),
                   Some(childAfter),
                   IF outcome.kind = "spawn_error" THEN timers ELSE timers \ timer,
                   IF IsFault(outcome) THEN 1 ELSE 0)

\* the provider's production-readiness answer arrives (lines 810-839)
validateDone(id, outcome) ==
  /\ id \in 1..Len(job) /\ pc[id] = "validating"
  /\ outcome.kind \in {"ready", "not_ready", "malformed"}
  /\ LET j == job[id]
         r == CASE outcome.kind = "ready" ->
                     Finish(id, [j EXCEPT !.validationScore = Some(outcome.score)], TRUE)
                [] outcome.kind = "not_ready" ->
                     PhaseFailed(id,
                       [j EXCEPT !.validationScore = Some(outcome.score),
                                 !.error = Some("Score: " \o ToString(outcome.score)
                                                \o "/100. Issues: incomplete")],
                       "validating", "Validation failed")
                [] outcome.kind = "malformed" ->
                     PhaseFailed(id, [j EXCEPT !.error = Some("Unexpected token in JSON")],
                                 "validating", "Validation failed")
     IN  Resume(id, r, j.childProcess, timers, IF outcome.kind = "ready" THEN 0 ELSE 1)

\* prepareNextIteration returns or throws
prepareDone(id, outcome) ==
  /\ id \in 1..Len(job) /\ pc[id] = "prepare"
  /\ outcome \in {"ok", "throw"}
  /\ LET j == job[id]
         r == IF outcome = "ok" THEN RunLoop(id, j)
                                ELSE ProcessThrew(id, j, "cannot remove dist")
     IN  Resume(id, r, j.childProcess, timers, IF outcome = "ok" THEN 0 ELSE 1)

\* a child that was sent SIGTERM by its command timer exits after the promise resolved
childExit(id) ==
  /\ id \in 1..Len(job) /\ pc[id] \notin CommandPcs
  /\ job[id].childProcess # None /\ job[id].childProcess[1].alive
  /\ job' = [job EXCEPT ![id].childProcess =
                           Some(closed(exited(@[1], None, Some("SIGTERM"))))]
  /\ last' = NoCall
  /\ UNCHANGED <<jobs, createdPlugins, anthropic, selectedModel, lastJobCreation,
                 jobCreationCount, dataDirSetting, timers, pc, orphans, tools, now,
                 faults, rateRejected>>

orphanExit(o) ==
  /\ o \in orphans
  /\ orphans' = orphans \ {o}
  /\ last' = NoCall
  /\ UNCHANGED <<job, jobs, createdPlugins, anthropic, selectedModel, lastJobCreation,
                 jobCreationCount, dataDirSetting, timers, pc, tools, now, faults,
                 rateRejected>>

\* the command timer of a child that never spawned fires after the promise resolved
staleCommandTimer(t) ==
  /\ t \in timers /\ t.kind = "cmd" /\ now >= t.due
  /\ LET j == job[t.job]
         referenced == j.childProcess # None /\ j.childProcess[1].cid = t.cid
     IN  /\ ~(pc[t.job] \in CommandPcs /\ referenced)
         /\ job' = IF referenced
                     THEN [job EXCEPT ![t.job].childProcess = Some(kill(@[1], "SIGTERM"))]
                     ELSE job
  /\ timers' = timers \ {t}
  /\ last' = NoCall
  /\ UNCHANGED <<jobs, createdPlugins, anthropic, selectedModel, lastJobCreation,
                 jobCreationCount, dataDirSetting, pc, orphans, tools, now, faults,
                 rateRejected>>

(***************************************************************************)
(* runCommand, event by event: the data, exit, close and error events of   *)
(* the child that the job references and the 5-minute timer, each as a     *)
(* step of its own.  The handler that settles the pending promise resumes  *)
(* the job's loop with the result.                                         *)
(***************************************************************************)
\* the promise of the child that the job references is pending
Pending(id) ==
  /\ pc[id] \in CommandPcs
  /\ job[id].childProcess # None
  /\ job[id].childProcess[1].result = None

\* the timer that runCommand armed for child c of job id, if still armed
CommandTimer(id, c) ==
  {t \in timers : t.kind = "cmd" /\ t.job = id /\ t.cid = c.cid}

\* child.on('exit'): clearTimeout(timeout), lines 966-968
TimersAfterExitKept(id, c) == timers

TimersAfterExit(id, c) == timers \ CommandTimer(id, c)

\* a handler ran on the child of job id and left it as c and the job as j: when it
\* settled the pending promise the loop resumes with the result, else only
\* the child, the log and the timers change
Settle(id, j, c, rest, fault) ==
  IF Pending(id) /\ c.result # None
    THEN Resume(id, AfterCommand(id, [j EXCEPT !.childProcess = Some(c)], pc[id],
                                 c.result[1]),
                Some(c), rest, fault)
    ELSE /\ job' = [job EXCEPT ![id] = [j EXCEPT !.childProcess = Some(c)]]
         /\ timers' = rest
         /\ last' = NoCall
         /\ UNCHANGED <<jobs, createdPlugins, anthropic, selectedModel, lastJobCreation,
                        jobCreationCount, dataDirSetting, pc, orphans, tools, now,
                        faults, rateRejected>>

\* child.stdout.on('data') / child.stderr.on('data')
onData(id, data) ==
  /\ id \in 1..Len(job) /\ job[id].childProcess # None
  /\ LET j == job[id]
         c == j.childProcess[1]
         c1 == handleData(c, data)
         j1 == IF c1.output.marks > c.output.marks
                 THEN logToJob(j, id, "Output truncated due to size limit")
                 ELSE j
     IN  /\ ~c.closed /\ c.exitCode # Some(ENOENT)
         /\ Settle(id, j1, c1, timers, 0)

\* the child process ends
onExit(id, code, signal) ==
  /\ id \in 1..Len(job) /\ job[id].childProcess # None
  /\ LET j == job[id]
         c == j.childProcess[1]
     IN  /\ c.alive
         /\ signal # None => signal[1] \in {c.signals[i] : i \in 1..Len(c.signals)}
         /\ Settle(id, j, exited(c, code, signal), TimersAfterExit(id, c), 0)

\* the streams of the child have ended: 'close'
onClose(id) ==
  /\ id \in 1..Len(job) /\ job[id].childProcess # None
  /\ LET j == job[id]
         c == j.childProcess[1]
     IN  /\ ~c.alive /\ ~c.closed
         /\ Settle(id, j, closed(c), timers,
                   IF Pending(id) /\ c.exitCode # Some(0) THEN 1 ELSE 0)

\* spawn failed: 'error' is the first event of the child
onError(id) ==
  /\ id \in 1..Len(job) /\ Pending(id)
  /\ LET j == job[id]
         c == j.childProcess[1]
     IN  /\ c.alive /\ c.received = 0 /\ c.signals = <<>>
         /\ Settle(id, logToJob(j, id, "Command not found"), spawnFailed(c), timers, 1)

\* the 5-minute timer of the child that the job references fires
onTimeout(id) ==
  /\ id \in 1..Len(job) /\ job[id].childProcess # None
  /\ LET j == job[id]
         c == j.childProcess[1]
     IN  /\ \E t \in CommandTimer(id, c) : now >= t.due
         /\ Settle(id, j, timedOut(c), timers \ CommandTimer(id, c),
                   IF Pending(id) THEN 1 ELSE 0)


(***************************************************************************)
(* The service after start(): constructed and initialized from the         *)
(* runtime settings.                                                       *)
(***************************************************************************)
InitWith(keys, dirs, hosts) ==
  /\ job = <<>>
  /\ jobs = {}
  /\ createdPlugins = {}
  /\ anthropic \in keys
  /\ selectedModel = OPUS_3
  /\ lastJobCreation = 0
  /\ jobCreationCount = 0
  /\ dataDirSetting \in dirs
  /\ timers = {}
  /\ pc = <<>>
  /\ orphans = {}
  /\ tools \in hosts
  /\ now = StartTime
  /\ faults = 0
  /\ last = NoCall
  /\ rateRejected = None

(***************************************************************************)
(* What the environment may answer.  A fault is an answer other than plain *)
(* success; the specifications bound the number of faults of a run.        *)
(***************************************************************************)
CommandSuccess == [kind |-> "exit", code |-> 0, output |-> "2 passed"]

CommandFaults ==
  { [kind |-> "exit", code |-> 1, output |-> "1 passed 1 failed"],
    [kind |-> "timeout", code |-> 1, output |-> "2 passed"] }

ValidateSuccess == [kind |-> "ready", score |-> 95]

ValidateFaults == { [kind |-> "not_ready", score |-> 40] }

\* one step of a job's loop in which the environment answers with success (a
\* missing client still makes generatePluginCode throw)
PipelineStep(id) ==
  \/ setupDone(id, "template")
  \/ generateRejected(id)
  \/ generateDone(id, "ok")
  \/ commandDone(id, CommandSuccess)
  \/ validateDone(id, ValidateSuccess)
  \/ prepareDone(id, "ok")

\* one step of a job's loop in which the environment answers with a fault
FaultyStep(id) ==
  \/ setupDone(id, "throw")
  \/ generateDone(id, "throw")
  \/ \E o \in CommandFaults : commandDone(id, o)
  \/ \E o \in ValidateFaults : validateDone(id, o)
  \/ prepareDone(id, "throw")

(***************************************************************************)
(* Spec: the life of one job.  createPlugin, cancelJob and stop interleave *)
(* with the job's loop, with the 30-minute timer and with children that    *)
(* outlive their command; the environment injects at most MaxFaults faults.*)
(***************************************************************************)
Names ==
  { <<"@", "a", "/", "b">>,
    <<".", ".", "/", "x">> }

Times == { StartTime + JobTimeoutMs }

Init == InitWith({None}, {Some(<<"t", "d">>)}, {{"npm"}})

Next ==
  \/ \E name \in Names, apiKey \in {None, Some("api-key")} :
       createPlugin(name, apiKey, None)
  \/ \E id \in 1..(Len(job) + 1) : cancelJob(id)
  \/ stop
  \/ \E id \in 1..Len(job) : jobTimeout(id)
  \/ \E t \in Times : Tick(t)
  \/ \E id \in 1..Len(job) : PipelineStep(id)
  \/ \E id \in 1..Len(job) : faults < MaxFaults /\ FaultyStep(id)
  \/ \E id \in 1..Len(job) : childExit(id)
  \/ \E o \in orphans : orphanExit(o)

Spec == Init /\ [][Next]_vars


(***************************************************************************)
(* SpecAdmit: admission.  Requests with valid names (each name requested   *)
(* for the first time only after all names before it), duplicates and      *)
(* invalid names, over hours and weeks, with stop, the job timers and the  *)
(* retention sweep; the jobs' loops are not scheduled.                     *)
(***************************************************************************)
\* the n-th valid name: "@s/p", "@s/pp", ...
ValidName(n) == <<"@", "s", "/">> \o [i \in 1..n |-> "p"]

\* names that the admission specification requests in every state
InvalidNames ==
  { <<".", ".", "/", ".", ".", "/", ".", ".", "/", "e", "t", "c", "/",
      "p", "a", "s", "s", "w", "d">>,
    <<"a", ".", "b", "/", "c">>,
    <<"a", "\\", "b">> }

\* every string of at most n characters of alphabet
RECURSIVE StringsUpTo(_, _)
StringsUpTo(alphabet, n) ==
  IF n = 0 THEN {<<>>}
  ELSE LET shorter == StringsUpTo(alphabet, n - 1)
       IN  shorter \cup {Append(s, c) : s \in shorter, c \in alphabet}

\* the documented shape of a plugin name: an optional "@", a scope and a
\* package name of letters, digits, "-" and "_", separated by one "/"
ScopedName(n) ==
  \E k \in 2..(Len(n) - 1) :
    /\ n[k] = "/"
    /\ \A i \in 1..Len(n) :
         \/ i = k
         \/ n[i] \in NameClass
         \/ i = 1 /\ n[i] = "@" /\ k > 2

\* the name holds "..", "./" or a backslash
Traversal(n) ==
  \/ \E i \in 1..(Len(n) - 1) : n[i] = "." /\ n[i + 1] \in {".", "/"}
  \/ \E i \in 1..Len(n) : n[i] = "\\"

\* names requested as the very first request only: every short string that
\* is not a documented name
ShortNames ==
  {n \in StringsUpTo({"@", "a", "/", ".", "\\", "-"}, MaxNameLen) :
     ~ScopedName(n) \/ Traversal(n)}

AdmitNames ==
  LET used == Cardinality(createdPlugins)
      top == IF used < MaxNames THEN used + 1 ELSE MaxNames
  IN  {ValidName(n) : n \in {1, used, top} \ {0}}
        \cup InvalidNames
        \cup (IF Len(job) = 0 /\ last = NoCall THEN ShortNames ELSE {})

\* later instants of the admission specification: the last instant of the
\* hour that starts with the first request, and an instant more than a week on
AdmitTimes == { StartTime + OneHour, StartTime + OneWeek + 1 }

InitAdmit == InitWith({None}, {None}, {{"npm"}})

\* the service is stopped at most once, before any job has ended
NextAdmit ==
  \/ \E name \in AdmitNames : createPlugin(name, None, None)
  \/ (\A id \in 1..Len(job) : job[id].completedAt = None) /\ stop
  \/ cleanupOldJobs
  \/ \E t \in AdmitTimes : Tick(t)

SpecAdmit == InitAdmit /\ [][NextAdmit]_vars

(***************************************************************************)
(* The job map: requests with fresh valid names, cancelJob on the first    *)
(* job and on an unknown id, one stop, the timers of the first two jobs,   *)
(* the retention sweep, and one instant more than a week later.            *)
(***************************************************************************)
CapacityNames ==
  LET used == Cardinality(createdPlugins)
  IN  {ValidName(IF used < MaxNames THEN used + 1 ELSE MaxNames)}

NextCapacity ==
  \/ \E name \in CapacityNames : createPlugin(name, None, None)
  \/ \E id \in {1, Len(job) + 1} : cancelJob(id)
  \/ (\A id \in 1..Len(job) : job[id].completedAt = None) /\ stop
  \/ \E id \in {1, 2} \cap (1..Len(job)) : jobTimeout(id)
  \/ cleanupOldJobs
  \/ Tick(StartTime + OneWeek + 1)

SpecCapacity == InitAdmit /\ [][NextCapacity]_vars

(***************************************************************************)
(* SpecSweep: the life of one job whose environment never fails, over more *)
(* than a week, with the retention sweep: the job can leave the map while  *)
(* its timer is armed and while its loop runs.                             *)
(***************************************************************************)
SweepTimes == { StartTime + JobTimeoutMs, StartTime + JobTimeoutMs + OneWeek + 1 }

NextSweep ==
  \/ \E name \in Names, apiKey \in {None, Some("api-key")} :
       createPlugin(name, apiKey, None)
  \/ \E id \in 1..(Len(job) + 1) : cancelJob(id)
  \/ stop
  \/ \E id \in 1..Len(job) : jobTimeout(id)
  \/ \E t \in SweepTimes : Tick(t)
  \/ cleanupOldJobs
  \/ \E id \in 1..Len(job) : PipelineStep(id)

SpecSweep == Init /\ [][NextSweep]_vars

(***************************************************************************)
(* SpecModel: two jobs created with or without a model in the options,     *)
(* while setModel changes the selected model and the loops of the jobs     *)
(* run (no client is configured, so every iteration fails at generate).    *)
(***************************************************************************)
ModelNames == {ValidName(1), ValidName(2)}

ModelOptions == {None} \cup {Some(m) : m \in ClaudeModel}

NextModel ==
  \/ \E name \in ModelNames, optModel \in ModelOptions :
       createPlugin(name, None, optModel)
  \/ \E m \in ClaudeModel : setModel(m)
  \/ \E id \in 1..Len(job) : PipelineStep(id)

SpecModel == InitAdmit /\ [][NextModel]_vars

(***************************************************************************)
(* SpecRetention: three jobs that are cancelled, stopped or timed out, and *)
(* the sweep exactly 7 days and just over 7 days after the service start. *)
(***************************************************************************)
RetentionNames ==
  LET used == Cardinality(createdPlugins)
  IN  {ValidName(IF used < MaxRetained THEN used + 1 ELSE MaxRetained)}

RetentionTimes == { StartTime + OneWeek, StartTime + OneWeek + 1 }

NextRetention ==
  \/ \E name \in RetentionNames : createPlugin(name, None, None)
  \/ \E id \in 1..(Len(job) + 1) : cancelJob(id)
  \/ stop
  \/ \E id \in 1..Len(job) : jobTimeout(id)
  \/ cleanupOldJobs
  \/ \E t \in RetentionTimes : Tick(t)

SpecRetention == InitAdmit /\ [][NextRetention]_vars

(***************************************************************************)
(* SpecCommand: the commands of the first iteration of one job, event by   *)
(* event.  A child writes at most MaxChunks chunks, the chunk that carries *)
(* text first.  cancelJob signals the child, the command timeout elapses   *)
(* once, and at most MaxFaults commands of a run fail.                     *)
(***************************************************************************)
\* the Buffers a child may write: a test summary, the words the truncation
\* check searches for, one 4-byte character (2 UTF-16 code units), a filler
\* one byte short of the cap and a filler of the size of the cap
Chunks ==
  { Chunk("2 passed"),
    [length |-> 16, chars |-> 16, text |-> "", mentions |-> TRUE],
    [length |-> 4, chars |-> 2, text |-> "", mentions |-> FALSE],
    [length |-> maxOutputSize - 1, chars |-> maxOutputSize - 1, text |-> "",
     mentions |-> FALSE],
    [length |-> maxOutputSize, chars |-> maxOutputSize, text |-> "",
     mentions |-> FALSE] }

\* how a process can end: an exit code, or null and the signal that ended it
Exits ==
  { [code |-> Some(0), signal |-> None],
    [code |-> Some(1), signal |-> None],
    [code |-> None, signal |-> Some("SIGTERM")] }

CommandTimes == { StartTime + CommandTimeoutMs }

CommandEvent(id) ==
  \/ \E data \in Chunks :
       /\ job[id].childProcess # None
       /\ job[id].childProcess[1].received < MaxChunks
       /\ data.text # "" => job[id].childProcess[1].received = 0
       /\ onData(id, data)
  \/ \E e \in Exits : onExit(id, e.code, e.signal)
  \/ onClose(id)
  \/ onError(id)
  \/ onTimeout(id)

NextCommand ==
  \/ createPlugin(<<"@", "a", "/", "b">>, Some("api-key"), None)
  \/ \E id \in 1..Len(job) : cancelJob(id)
  \/ \E t \in CommandTimes : Tick(t)
  \/ \E id \in 1..Len(job) : setupDone(id, "template")
  \/ \E id \in 1..Len(job) : generateDone(id, "ok")
  \/ \E id \in 1..Len(job) : validateDone(id, ValidateSuccess)
  \/ \E id \in 1..Len(job) : CommandEvent(id) /\ faults' <= MaxFaults
  \/ \E t \in timers : staleCommandTimer(t)
  \/ \E o \in orphans : orphanExit(o)

SpecCommand == Init /\ [][NextCommand]_vars

(***************************************************************************)
(* SpecTests: the life of one job whose test command may exit with 0 or 1  *)
(* whatever its output says (tests failed, tests passed, no summary), or   *)
(* time out; the validation may fail as well, and cancelJob interleaves.   *)
(***************************************************************************)
\* a test run that exits with 0 and prints no summary
TestSilent == [kind |-> "exit", code |-> 0, output |-> ""]

TestFaults ==
  { [kind |-> "exit", code |-> 0, output |-> "1 passed 1 failed"],
    [kind |-> "exit", code |-> 1, output |-> "1 passed 1 failed"],
    [kind |-> "exit", code |-> 1, output |-> "2 passed"],
    [kind |-> "exit", code |-> 1, output |-> ""],
    [kind |-> "timeout", code |-> 1, output |-> "2 passed"] }

NextTests ==
  \/ \E apiKey \in {None, Some("api-key")} :
       createPlugin(<<"@", "a", "/", "b">>, apiKey, None)
  \/ \E id \in 1..Len(job) : cancelJob(id)
  \/ \E id \in 1..Len(job) : PipelineStep(id)
  \/ \E id \in 1..Len(job) : pc[id] = "testing" /\ commandDone(id, TestSilent)
  \/ \E id \in 1..Len(job), o \in TestFaults :
       faults < MaxFaults /\ pc[id] = "testing" /\ commandDone(id, o)
  \/ \E id \in 1..Len(job), o \in ValidateFaults :
       faults < MaxFaults /\ validateDone(id, o)
  \/ Tick(StartTime + CommandTimeoutMs)

SpecTests == Init /\ [][NextTests]_vars

(***************************************************************************)
(* SpecLive: Spec with the assumption that whatever the loop of the job    *)
(* awaits (the workspace setup, a provider call, a child process, the      *)
(* clean-up between iterations) eventually returns, with success or with a *)
(* failure.  Nothing is assumed about cancelJob, stop, the clock or the    *)
(* job timer.                                                              *)
(***************************************************************************)
\* the jobs that Spec admits: Names holds one valid name
LiveJobs == {1}

\* what job id awaits returns
LoopStep(id) == PipelineStep(id) \/ (faults < MaxFaults /\ FaultyStep(id))

SpecLive == Init /\ [][Next]_vars /\ \A id \in LiveJobs : WF_vars(LoopStep(id))

(***************************************************************************)
(* SpecSilent: the life of one job whose build and lint commands may exit  *)
(* with code 1 without having written anything, in any iteration; an       *)
(* exception of the provider call, the job timer and cancelJob interleave. *)
(***************************************************************************)
\* a command that fails and prints nothing
SilentFailure == [kind |-> "exit", code |-> 1, output |-> ""]

NextSilent ==
  \/ createPlugin(<<"@", "a", "/", "b">>, Some("api-key"), None)
  \/ \E id \in 1..Len(job) : cancelJob(id)
  \/ \E id \in 1..Len(job) : jobTimeout(id)
  \/ \E t \in Times : Tick(t)
  \/ \E id \in 1..Len(job) : PipelineStep(id)
  \/ \E id \in 1..Len(job) :
       pc[id] \in {"build", "linting"} /\ commandDone(id, SilentFailure)
  \/ \E id \in 1..Len(job) : faults < MaxFaults /\ generateDone(id, "throw")

SpecSilent == Init /\ [][NextSilent]_vars

(***************************************************************************)
(* SpecTools: the life of one job on each host: any of bun, pnpm, yarn and *)
(* npm may be installed.  A command runs and exits with 0 when its tool is *)
(* on the host, and fails to spawn when it is not.                         *)
(***************************************************************************)
PackageManagerNames == {"bun", "pnpm", "yarn", "npm"}

InitTools ==
  InitWith({Some("api-key")}, {Some(<<"t", "d">>)}, SUBSET PackageManagerNames)

SpawnError == [kind |-> "spawn_error", code |-> ENOENT, output |-> ""]

\* the tool that the child of job id was spawned with is on the host
Spawnable(id) ==
  /\ job[id].childProcess # None
  /\ job[id].childProcess[1].spawnfile \in tools

NextTools ==
  \/ createPlugin(<<"@", "a", "/", "b">>, None, None)
  \/ \E id \in 1..Len(job) : setupDone(id, "template")
  \/ \E id \in 1..Len(job) : generateDone(id, "ok")
  \/ \E id \in 1..Len(job) : Spawnable(id) /\ commandDone(id, CommandSuccess)
  \/ \E id \in 1..Len(job) : ~Spawnable(id) /\ commandDone(id, SpawnError)
  \/ \E id \in 1..Len(job) : validateDone(id, ValidateSuccess)
  \/ \E id \in 1..Len(job) : prepareDone(id, "ok")

SpecTools == InitTools /\ [][NextTools]_vars

(***************************************************************************)
(* SpecKeys: two jobs, each created with one of two API keys or with      *)
(* none, whose loops run side by side in an environment that never fails.  *)
(***************************************************************************)
ApiKeys == {None, Some("key-1"), Some("key-2")}

NextKeys ==
  \/ \E name \in ModelNames, apiKey \in ApiKeys : createPlugin(name, apiKey, None)
  \/ \E id \in 1..Len(job) : PipelineStep(id)

SpecKeys == Init /\ [][NextKeys]_vars

(***************************************************************************)
(* Properties.                                                             *)
(***************************************************************************)
Ids == 1..Len(job)

\* C1: once a job's status is completed, failed or cancelled, no step writes a
\* different status to that job.
C1_TerminalStatusIsFinal ==
  [][\A id \in Ids : job[id].status \in Terminal => job'[id].status = job[id].status]_vars

\* C2: for every tracked job, completedAt is set if and only if the status is
\* completed, failed or cancelled.
C2_CompletedAtIffTerminal ==
  \A id \in jobs : (job[id].completedAt # None) <=> (job[id].status \in Terminal)

\* C3: cancelJob(id) on a tracked job that is pending or running sets its status
\* to cancelled and completedAt to the current time, appends one log line, calls
\* kill('SIGTERM') on the stored child when there is one whose killed flag is not
\* set, and signals nothing else; no other field and no other job changes.
CancelEffect(id) ==
  LET before == job[id]
      after == job'[id]
      child == before.childProcess
  IN  /\ after.status = "cancelled"
      /\ after.completedAt = Some(now)
      /\ BagCardinality(after.logs) = BagCardinality(before.logs) + 1
      /\ BagIn("Job cancelled by user", after.logs)
      /\ IF child # None /\ ~child[1].killed
           THEN /\ after.childProcess[1].signals = Append(child[1].signals, "SIGTERM")
                /\ after.childProcess[1].cid = child[1].cid
                /\ after.childProcess[1].alive = child[1].alive
                /\ after.childProcess[1].killed = child[1].alive
           ELSE after.childProcess = child
      /\ after = [before EXCEPT !.status = after.status,
                                !.completedAt = after.completedAt,
                                !.logs = after.logs,
                                !.childProcess = after.childProcess]
      /\ \A other \in Ids \ {id} : job'[other] = job[other]
      /\ UNCHANGED <<jobs, orphans, timers, pc>>

C3_CancelActiveJob ==
  [][\A id \in Ids :
       (cancelJob(id) /\ id \in jobs /\ job[id].status \in Active) => CancelEffect(id)]_vars

\* C3 witness: a job was cancelled while the child of a running command was
\* alive, and that child has received exactly one SIGTERM.
C3_Witness ==
  \E id \in Ids :
    /\ job[id].status = "cancelled"
    /\ pc[id] \in CommandPcs
    /\ job[id].childProcess # None
    /\ job[id].childProcess[1].alive
    /\ job[id].childProcess[1].killed
    /\ job[id].childProcess[1].signals = <<"SIGTERM">>

\* the state of the service and of its environment, without the records kept
\* for the properties (last, rateRejected, faults)
service == <<job, jobs, createdPlugins, anthropic, selectedModel, lastJobCreation,
             jobCreationCount, dataDirSetting, timers, pc, orphans, tools, now>>

\* C4: cancelJob(id) changes nothing when id is not tracked or when the tracked
\* job is completed, failed or cancelled: no job field, no log, no signal, no
\* timer and no other part of the service changes.
C4_CancelInactiveJob ==
  [][\A id \in 1..(Len(job) + 1) :
       ( /\ last'.op = "cancelJob"
         /\ last'.id = id
         /\ ~(id \in jobs /\ job[id].status \in Active) )
       => UNCHANGED service]_vars

\* C4 witness: cancelJob was called on a tracked job that had completed.
C4_Witness ==
  /\ last.op = "cancelJob"
  /\ last.id \in jobs
  /\ job[last.id].status = "completed"

\* C5: a createPlugin request whose name already has a job created by this
\* service fails with the duplicate error and changes nothing: no second job,
\* and the first job, the job map, the registry, the timers and the rate
\* limiter are as before.
C5_DuplicateNameRejected ==
  [][( /\ last'.op = "createPlugin"
       /\ \E id \in Ids : job[id].name = last'.name )
     => /\ last'.result = "duplicate"
        /\ UNCHANGED service]_vars

\* C5 witness: a name was requested again while the rate limiter was exhausted
\* and the job map was full, and the request failed with the duplicate error.
C5_Witness ==
  /\ last.op = "createPlugin"
  /\ last.result = "duplicate"
  /\ \E id \in Ids : job[id].name = last.name
  /\ jobCreationCount >= 10
  /\ Cardinality(jobs) >= 10

\* C6: a createPlugin request that is rejected at admission creates no job: the
\* job records, the job map, the registry of created names, the timers and
\* the started pipelines are unchanged.
Rejections == {"duplicate", "invalid_name", "rate_limited", "capacity", "unsafe_path"}

C6_RejectionCreatesNothing ==
  [][(last'.op = "createPlugin" /\ last'.result \in Rejections)
     => UNCHANGED <<job, jobs, createdPlugins, timers, pc>>]_vars

\* C6 witness: a request with a valid, unused name was rejected because the job
\* map was full.
C6_Witness ==
  /\ last.op = "createPlugin"
  /\ last.result = "capacity"
  /\ last.name \notin createdPlugins

\* C7: a createPlugin request whose name is not a documented scoped name, or
\* holds "..", "./" or a backslash, fails with the invalid-name error and
\* leaves the whole service unchanged, rate limiter and job map included.
C7_InvalidNameRejected ==
  [][( /\ last'.op = "createPlugin"
       /\ ~ScopedName(last'.name) \/ Traversal(last'.name) )
     => /\ last'.result = "invalid_name"
        /\ UNCHANGED service]_vars

\* C7 witness: "../../../etc/passwd" was rejected as an invalid name while the
\* rate limiter was exhausted and the job map was full.
C7_Witness ==
  /\ last.op = "createPlugin"
  /\ last.result = "invalid_name"
  /\ last.name = <<".", ".", "/", ".", ".", "/", ".", ".", "/", "e", "t", "c", "/",
                   "p", "a", "s", "s", "w", "d">>
  /\ jobCreationCount >= 10
  /\ Cardinality(jobs) >= 10

\* C8: the outputPath of every job is a path strictly below the resolved data
\* directory, without ".." segments, from the step that creates the job, and no
\* later step changes it.
DataRoot == Resolve(getDataDir)

Descendant(path) ==
  /\ StartsWith(path, DataRoot \o <<"/">>)
  /\ Len(path) > Len(DataRoot) + 1
  /\ \A i \in 1..(Len(path) - 1) : ~(path[i] = "." /\ path[i + 1] = ".")

C8_OutputPathFixedInsideRoot ==
  [][\A id \in 1..Len(job') :
       /\ Descendant(job'[id].outputPath)
       /\ id <= Len(job) => job'[id].outputPath = job[id].outputPath]_vars

\* C8 witness: a job ran its whole pipeline and completed, and its outputPath is
\* still <cwd>/td/plugins/j01/a-b.
C8_Witness ==
  \E id \in Ids :
    /\ job[id].status = "completed"
    /\ job[id].outputPath =
         Cwd \o <<"/", "t", "d", "/", "p", "l", "u", "g", "i", "n", "s", "/",
                  "j", "0", "1", "/", "a", "-", "b">>

\* C9: no window of one hour holds the creation of more than 10 jobs, and a
\* request with a valid, unused name made when 10 jobs were created during the
\* last hour fails with the rate-limit error.
CreatedIn(from, to) ==
  {id \in Ids : job[id].startedAt >= from /\ job[id].startedAt <= to}

C9_AtMostTenPerHour ==
  [][/\ \A id \in Ids :
          Cardinality(CreatedIn(job[id].startedAt, job[id].startedAt + OneHour)) <= 10
     /\ ( /\ last'.op = "createPlugin"
          /\ ScopedName(last'.name) /\ ~Traversal(last'.name)
          /\ \A id \in Ids : job[id].name # last'.name
          /\ Cardinality(CreatedIn(now - OneHour, now)) >= 10 )
        => last'.result = "rate_limited"]_vars

\* C9 witness: ten jobs were created one hour ago and an eleventh request with
\* a valid, unused name has just failed with the rate-limit error.
C9_Witness ==
  /\ last.op = "createPlugin"
  /\ last.result = "rate_limited"
  /\ now = StartTime + OneHour
  /\ Cardinality(CreatedIn(StartTime, StartTime)) = 10

\* C10: a request with a valid, unused name that the rate limiter has rejected
\* succeeds and creates a job when it is made again more than one hour after
\* the rejection (checked for the requests made when every tracked job has
\* ended).
C10_SucceedsAfterTheHour ==
  [][( /\ last'.op = "createPlugin"
       /\ rateRejected # None
       /\ last'.name = rateRejected[1].name
       /\ \A id \in Ids : job[id].name # last'.name
       /\ now - rateRejected[1].at > OneHour
       /\ \A id \in jobs : job[id].status \in Terminal )
     => /\ last'.result = "ok"
        /\ Len(job') = Len(job) + 1
        /\ job'[Len(job')].name = last'.name]_vars

\* a createPlugin step whose name is a documented name that no job has had
ValidUnusedRequest ==
  /\ last'.op = "createPlugin"
  /\ ScopedName(last'.name) /\ ~Traversal(last'.name)
  /\ \A id \in Ids : job[id].name # last'.name

\* C11 as stated: with 10 jobs tracked, a request with a valid, unused name
\* fails with the capacity error and with no other admission error.
C11_CapacityErrorAtTenJobs ==
  [][(ValidUnusedRequest /\ Cardinality(jobs) = 10) => last'.result = "capacity"]_vars

\* C11 amended: with 10 jobs tracked, a request with a valid, unused name
\* creates no job; it fails with the rate-limit error when 10 requests have
\* passed the rate limiter and no more than one hour has passed since the last
\* of them, and with the capacity error otherwise.
C11_CapacityErrorAfterRateLimit ==
  [][(ValidUnusedRequest /\ Cardinality(jobs) = 10)
     => /\ UNCHANGED <<job, jobs, createdPlugins, timers, pc>>
        /\ IF jobCreationCount >= 10 /\ now - lastJobCreation <= OneHour
             THEN last'.result = "rate_limited"
             ELSE last'.result = "capacity"]_vars

\* C11 witness: the job map holds 10 jobs, the hour of their creation is over,
\* and a valid, unused name has just been refused with the capacity error.
C11_Witness ==
  /\ last.op = "createPlugin"
  /\ last.result = "capacity"
  /\ Cardinality(jobs) = 10
  /\ \A id \in Ids : job[id].name # last.name /\ job[id].startedAt < now - OneHour

C13_IterationAndProgress ==
  [][/\ \A id \in 1..Len(job') :
          /\ job'[id].maxIterations = 5
          /\ job'[id].currentIteration \in 0..5
          /\ job'[id].progress * 5 = job'[id].currentIteration * 100
          /\ job'[id].progress \in 0..100
     /\ \A id \in Ids :
          /\ job'[id].currentIteration \in
               {job[id].currentIteration, job[id].currentIteration + 1}
          /\ job'[id].progress >= job[id].progress]_vars

\* C13 witness: a job is in its fifth iteration with progress 100.
C13_Witness ==
  \E id \in Ids :
    /\ job[id].currentIteration = 5
    /\ job[id].progress = 100
    /\ job[id].status \in Active

\* C14: within one iteration the phase label moves only along generating,
\* building, linting, testing, validating, one phase at a time, in a step in
\* which the operation of the current phase has returned without an error
\* ledger entry; a command or a validation that fails keeps the phase label,
\* appends one ledger entry for that phase and ends the iteration, and from
\* there the label changes only when the next iteration starts.
PhaseOrder ==
  { <<"generating", "building">>, <<"building", "linting">>,
    <<"linting", "testing">>, <<"testing", "validating">> }

\* the awaits at which a job is suspended during a phase
PhaseAwaits(phase) ==
  CASE phase = "generating" -> {"generating", "generate_rejected"}
    [] phase = "building" -> {"install", "build"}
    [] phase = "linting" -> {"linting"}
    [] phase = "testing" -> {"testing"}
    [] phase = "validating" -> {"validating"}
    [] OTHER -> {}

\* the command awaited at `at` makes its phase fail
CommandFailed(at, outcome) ==
  /\ at # "install"
  /\ \/ outcome.kind # "exit"
     \/ outcome.code # 0
     \/ at = "testing" /\ outcome.output = "1 passed 1 failed"

IterationEnded(id) ==
  LET a == job[id]
      b == job'[id]
  IN  /\ b.currentPhase = a.currentPhase
      /\ b.currentIteration = a.currentIteration
      /\ pc'[id] \in {"prepare", "done"}
      /\ Len(b.errors) = Len(a.errors) + 1
      /\ b.errors[Len(b.errors)].phase = a.currentPhase
      /\ b.errors[Len(b.errors)].iteration = a.currentIteration

C14_PhasesInOrder ==
  [][\A id \in Ids :
       LET a == job[id]
           b == job'[id]
       IN  /\ pc[id] \notin {"setup", "prepare", "done"}
                => pc[id] \in PhaseAwaits(a.currentPhase)
           /\ (b.currentIteration = a.currentIteration
                 /\ b.currentPhase # a.currentPhase)
                => /\ <<a.currentPhase, b.currentPhase>> \in PhaseOrder
                   /\ pc[id] \in PhaseAwaits(a.currentPhase)
                   /\ pc'[id] \in PhaseAwaits(b.currentPhase) \cup {"done"}
                   /\ b.errors = a.errors
           /\ b.currentIteration # a.currentIteration
                => /\ b.currentPhase = "generating"
                   /\ pc[id] \in {"setup", "prepare"}
           /\ \A o \in CommandFaults :
                (commandDone(id, o) /\ CommandFailed(pc[id], o)) => IterationEnded(id)
           /\ \A o \in ValidateFaults : validateDone(id, o) => IterationEnded(id)
           /\ pc[id] \in {"prepare", "done"}
                => \/ b.currentPhase = a.currentPhase
                   \/ b.currentIteration = a.currentIteration + 1]_vars

\* C14 witness: the build of the first iteration failed: the iteration has
\* ended in phase building with one ledger entry for building, and neither
\* lint nor tests ran (one child for install, one for build).
C14_Witness ==
  \E id \in Ids :
    /\ pc[id] = "prepare"
    /\ job[id].currentIteration = 1
    /\ job[id].currentPhase = "building"
    /\ Len(job[id].errors) = 1
    /\ job[id].errors[1].phase = "building"
    /\ job[id].childCount = 2
    /\ job[id].testResults = None

\* C15: a step sets a job's status to completed only when the validation of
\* the current iteration has passed, with the phase label at validating, no
\* ledger entry for that iteration and no failed test; a failing command or
\* validation never does; once the loop has ended no iteration starts; and a
\* job that completes in its first iteration has an empty ledger.
C15_CompletedAfterFivePhases ==
  [][\A id \in Ids :
       LET a == job[id]
           b == job'[id]
       IN  /\ (a.status # "completed" /\ b.status = "completed")
                => /\ pc[id] = "validating" \/ (pc[id] = "testing" /\ anthropic = None)
                   /\ pc'[id] = "done"
                   /\ b.currentPhase = "validating"
                   /\ b.currentIteration = a.currentIteration
                   /\ b.errors = a.errors
                   /\ \A k \in 1..Len(b.errors) : b.errors[k].iteration < b.currentIteration
                   /\ b.testResults # None /\ b.testResults[1].failed = 0
                   /\ b.currentIteration = 1 => b.errors = <<>>
           /\ \A o \in CommandFaults :
                (commandDone(id, o) /\ CommandFailed(pc[id], o)) => b.status # "completed"
           /\ \A o \in ValidateFaults :
                validateDone(id, o) => b.status # "completed"
           /\ pc[id] = "done"
                => /\ pc'[id] = "done"
                   /\ b.currentIteration = a.currentIteration
                   /\ b.currentPhase = a.currentPhase]_vars

\* C15 witness: every phase of the first iteration succeeded and the job is
\* completed with currentIteration 1, an empty ledger and no failed test.
C15_Witness ==
  \E id \in Ids :
    /\ job[id].status = "completed"
    /\ pc[id] = "done"
    /\ job[id].currentIteration = 1
    /\ job[id].errors = <<>>
    /\ job[id].testResults # None /\ job[id].testResults[1].failed = 0
    /\ job[id].childCount = 4

\* C16: a step in which an iteration fails (one ledger entry is appended)
\* before the fifth iteration leaves the job running and goes on to prepare
\* the next iteration; when the fifth iteration fails the same step marks the
\* job failed with completedAt set and ends the loop.  The loop marks a job
\* failed for the exhausted budget only then, with one ledger entry for each
\* of the iterations 1 to 5, in this order.
BudgetLog == "Job failed after maximum iterations"

C16_FailsAfterFiveIterations ==
  [][\A id \in Ids :
       LET a == job[id]
           b == job'[id]
           n == Len(b.errors)
       IN  /\ Len(b.errors) > Len(a.errors)
                => /\ n = Len(a.errors) + 1
                   /\ b.errors[n].iteration = a.currentIteration
                   /\ IF a.currentIteration < 5
                        THEN /\ pc'[id] = "prepare"
                             /\ b.status = "running"
                             /\ CopiesIn(BudgetLog, b.logs) = CopiesIn(BudgetLog, a.logs)
                        ELSE /\ pc'[id] = "done"
                             /\ b.status = "failed"
                             /\ b.completedAt = Some(now)
           /\ CopiesIn(BudgetLog, b.logs) > CopiesIn(BudgetLog, a.logs)
                => /\ a.currentIteration = 5
                   /\ b.status = "failed"
                   /\ b.completedAt = Some(now)
                   /\ pc'[id] = "done"
                   /\ [k \in 1..n |-> b.errors[k].iteration] = <<1, 2, 3, 4, 5>>]_vars

\* C16 witness: all five iterations of a job failed and the job is failed, with
\* completedAt set and ledger entries for the iterations 1 to 5.
C16_Witness ==
  \E id \in Ids :
    /\ job[id].status = "failed"
    /\ pc[id] = "done"
    /\ job[id].completedAt # None
    /\ job[id].currentIteration = 5
    /\ Len(job[id].errors) = 5
    /\ BagIn(BudgetLog, job[id].logs)

\* C17: the job timer fires no earlier than 30 minutes after the job was
\* created.  When it fires for a tracked job that is pending or running, the
\* status becomes failed, error the timeout message and completedAt the
\* current time, one log line is added, and nothing else changes: the child
\* of the job receives no signal and the loop stays where it is.  When it
\* fires for a job that is terminal or no longer tracked, nothing changes.
C17_JobTimerFires ==
  [][\A id \in Ids :
       jobTimeout(id)
       => LET a == job[id]
              b == job'[id]
          IN  /\ now >= a.startedAt + 30 * 60 * 1000
              /\ IF id \in jobs /\ a.status \in Active
                   THEN /\ b.status = "failed"
                        /\ b.error = Some("Job timed out after 30 minutes")
                        /\ b.completedAt = Some(now)
                        /\ b.childProcess = a.childProcess
                        /\ BagCardinality(b.logs) = BagCardinality(a.logs) + 1
                        /\ b = [a EXCEPT !.status = b.status, !.error = b.error,
                                         !.completedAt = b.completedAt,
                                         !.logs = b.logs]
                   ELSE b = a
              /\ \A other \in Ids \ {id} : job'[other] = job[other]
              /\ UNCHANGED <<jobs, createdPlugins, anthropic, selectedModel,
                             lastJobCreation, jobCreationCount, dataDirSetting, pc,
                             orphans, tools, now>>]_vars

\* C17 witness: the timer has failed a job while a command of its pipeline was
\* running; the child is alive and has received no signal.
C17_Witness ==
  \E id \in Ids :
    /\ job[id].status = "failed"
    /\ job[id].error = Some("Job timed out after 30 minutes")
    /\ pc[id] \in CommandPcs
    /\ job[id].childProcess # None
    /\ job[id].childProcess[1].alive
    /\ job[id].childProcess[1].signals = <<>>

\* C18: the step of an admitted createPlugin call is the whole call: when it
\* returns the id, getJobStatus(id) is the new job with status pending,
\* currentIteration 0, progress 0, an empty ledger and no completedAt, its
\* loop stands at its first await, and modelUsed is the model of the options
\* or, without one, the selected model.  No step changes the modelUsed of a
\* job that exists.
C18_ReturnsPendingJobAtOnce ==
  [][/\ \A name \in ModelNames, optModel \in ModelOptions :
          (createPlugin(name, None, optModel) /\ last'.result = "ok")
          => LET id == last'.id
                 got == IF id \in jobs' THEN Some(job'[id]) ELSE None
             IN  /\ id \notin Ids
                 /\ got # None
                 /\ got[1].name = name
                 /\ got[1].status = "pending"
                 /\ got[1].currentIteration = 0
                 /\ got[1].progress = 0
                 /\ got[1].errors = <<>>
                 /\ got[1].completedAt = None
                 /\ got[1].modelUsed = IF optModel = None THEN selectedModel
                                                         ELSE optModel[1]
                 /\ pc'[id] = "setup"
     /\ \A id \in Ids : job'[id].modelUsed = job[id].modelUsed]_vars

\* C18 witness: the second job has just been created with the model of its
\* options, which is not the selected model; the first job, created with
\* another model, is already in its loop.
C18_Witness ==
  /\ last.op = "createPlugin" /\ last.result = "ok" /\ last.id = 2
  /\ getJobStatus(2) = Some(job[2])
  /\ job[2].status = "pending"
  /\ pc[2] = "setup"
  /\ job[2].modelUsed # selectedModel
  /\ job[1].modelUsed # job[2].modelUsed
  /\ job[1].currentIteration > 0

\* C19: the registry holds exactly the names of the jobs this service has
\* created, tracked or not, and no two jobs have the same name, so
\* getCreatedPlugins lists as many names as requests were admitted; a
\* request leaves its name in the registry if and only if it is admitted or
\* the name was there before; and no step removes a name.
C19_RegistryIsAdmittedNames ==
  [][/\ getCreatedPlugins = {job[id].name : id \in Ids}
     /\ Cardinality(getCreatedPlugins) = Len(job)
     /\ \A id \in jobs : isPluginCreated(job[id].name)
     /\ \A i, j \in jobs : job[i].name = job[j].name => i = j
     /\ createdPlugins \subseteq createdPlugins'
     /\ last'.op = "createPlugin"
          => (last'.name \in createdPlugins'
                <=> (last'.result = "ok" \/ isPluginCreated(last'.name)))]_vars

\* C19 witness: the name of a cancelled job that the sweep has removed from the
\* map is still in the registry, next to the name of a tracked failed job.
C19_Witness ==
  /\ \E id \in Ids \ jobs : job[id].status = "cancelled" /\ isPluginCreated(job[id].name)
  /\ \E id \in jobs : job[id].status = "failed" /\ isPluginCreated(job[id].name)
  /\ Cardinality(getCreatedPlugins) = Len(job)

\* C20: a cleanupOldJobs step removes from the job map exactly the tracked
\* jobs whose completedAt is more than 7 days before the current time,
\* whether or not their directories could be deleted, and changes no job
\* record and nothing else of the service.
C20_SweepRemovesOldJobs ==
  [][cleanupOldJobs
     => /\ jobs' = {id \in jobs :
                      ~(/\ job[id].completedAt # None
                        /\ now - job[id].completedAt[1] > 7 * 24 * 60 * 60 * 1000)}
        /\ job' = job
        /\ UNCHANGED <<createdPlugins, anthropic, selectedModel, lastJobCreation,
                       jobCreationCount, dataDirSetting, timers, pc, orphans, tools,
                       now>>]_vars

\* C20 witness: a sweep has removed a job that ended more than 7 days ago and
\* has kept a job that ended less than 7 days ago and a job that is pending.
C20_Witness ==
  /\ now = StartTime + OneWeek + 1
  /\ \E id \in Ids \ jobs : job[id].completedAt = Some(StartTime)
  /\ \E id \in jobs : job[id].completedAt = Some(StartTime + OneWeek)
  /\ \E id \in jobs : job[id].completedAt = None

\* the children that the jobs reference, with the job that references each
Referenced == {id \in Ids : job[id].childProcess # None}

\* the number of characters of output that came from the child
DataChars(c) == c.output.chars - c.output.marks * Len(TruncationMarker)

\* C21: whatever chunks a child writes, the captured output is never longer than
\* the 1 MiB cap plus the truncation marker; a chunk with which the cumulative
\* size of the received data is at or over the cap adds no data to it, and the
\* marker is in it at most once.
C21_OutputCapped ==
  /\ [](\A id \in Referenced :
          LET c == job[id].childProcess[1] IN
            /\ c.output.chars <= maxOutputSize + Len(TruncationMarker)
            /\ c.output.marks <= 1
            /\ DataChars(c) < maxOutputSize)
  /\ [][\A id \in Referenced :
          (job'[id].childProcess # None
             /\ job'[id].childProcess[1].cid = job[id].childProcess[1].cid)
          => LET c == job[id].childProcess[1]
                 d == job'[id].childProcess[1]
             IN  /\ d.outputSize >= maxOutputSize =>
                       /\ DataChars(d) = DataChars(c)
                       /\ d.output.text = c.output.text
                 /\ d.output.marks \in {c.output.marks, c.output.marks + 1}
                 /\ d.output.marks > c.output.marks =>
                       /\ c.outputSize < d.outputSize
                       /\ d.outputSize >= maxOutputSize]_vars

\* a child wrote one byte less than the cap, which was captured, and then more:
\* the output is as long as it can get, with one marker
C21_Witness ==
  \E id \in Referenced :
    LET c == job[id].childProcess[1] IN
      /\ c.received = 2
      /\ c.outputSize > maxOutputSize
      /\ c.output.marks = 1
      /\ c.output.chars = maxOutputSize - 1 + Len(TruncationMarker)

\* the command timers armed for the children of job id
CommandTimers(id) == {t \in timers : t.kind = "cmd" /\ t.job = id}

\* C22: the timer of a command is armed at the spawn for 5 minutes later.  When
\* it fires on a child that has not exited, the child is sent SIGTERM and the
\* result of the command is success = false with the output captured so far
\* followed by the timeout marker.  When the child exits, the timer is
\* cleared: no timer is armed for a child that has exited.
C22_CommandTimeout ==
  /\ [](\A id \in Referenced :
          LET c == job[id].childProcess[1] IN
            /\ (~c.alive /\ c.exitCode # Some(ENOENT)) => CommandTimer(id, c) = {}
            /\ (c.alive /\ CommandTimer(id, c) # {}) => c.result = None
            /\ (c.alive /\ CommandTimer(id, c) = {}) =>
                  /\ c.result # None /\ ~c.result[1].success
                  /\ \E i \in 1..Len(c.signals) : c.signals[i] = "SIGTERM")
  /\ [][\A id \in Ids :
          /\ job'[id].childCount > job[id].childCount =>
                CommandTimers(id)' \ CommandTimers(id) =
                  {[kind |-> "cmd", job |-> id, cid |-> job'[id].childCount,
                    due |-> now + CommandTimeoutMs]}
          /\ (onTimeout(id) /\ job[id].childProcess[1].alive) =>
                LET c == job[id].childProcess[1]
                    d == job'[id].childProcess[1]
                    marked == [success |-> FALSE,
                               output |-> OutputText(c.output) \o TimeoutMarker]
                IN  /\ \E t \in CommandTimer(id, c) : now >= t.due
                    /\ \A t \in timers' : ~(t.kind = "cmd" /\ t.job = id /\ t.cid = c.cid)
                    /\ pc[id] \in CommandPcs
                    /\ IF pc[id] = "install"
                         THEN /\ pc'[id] = "build"
                              /\ [job |-> id, cid |-> c.cid] \in orphans'
                         ELSE /\ d.cid = c.cid
                              /\ d.alive
                              /\ d.signals = Append(c.signals, "SIGTERM")
                              /\ d.result = Some(marked)
                              /\ job'[id].error =
                                    Some(IF pc[id] = "testing"
                                           THEN "0 tests failed" ELSE marked.output)]_vars

\* the build command wrote its output, was still running 5 minutes after the
\* spawn and was killed by the timer; it has not exited yet
C22_Witness ==
  \E id \in Referenced :
    LET c == job[id].childProcess[1] IN
      /\ c.alive /\ c.signals = <<"SIGTERM">>
      /\ c.output.text = "2 passed"
      /\ c.result = Some([success |-> FALSE, output |-> "2 passed" \o TimeoutMarker])
      /\ job[id].errors # <<>>
      /\ job[id].errors[1].phase = "building"
      /\ job[id].errors[1].error = "2 passed" \o TimeoutMarker

\* job id's record apart from its child and its log
JobApartFromChild(j) == [j EXCEPT !.childProcess = None, !.logs = EmptyBag]

\* some event of the child of job id other than a failed spawn
LaterEvent(id) ==
  \/ \E data \in Chunks : onData(id, data)
  \/ \E e \in Exits : onExit(id, e.code, e.signal)
  \/ onClose(id)
  \/ onTimeout(id)

\* the command that follows the command awaited at a pc when the phase goes on
Advance(at) ==
  CASE at = "install" -> "build"
    [] at = "build" -> "linting"
    [] at = "linting" -> "testing"
    [] at = "testing" -> "validating"

\* this step hands result r to the phase that awaits the command of job id: the
\* phase goes on when r.success (the install command: in any case), else it
\* fails, as a failed phase and not as an exception: one ledger entry for
\* the phase with the output as detail (the phase's own words when the
\* output is empty), no completedAt, another iteration
SettledWith(id, r) ==
  LET a == job[id]
      b == job'[id]
      c == a.childProcess[1]
      d == b.childProcess[1]
      at == pc[id]
  IN  IF at = "install" \/ r.success
        THEN /\ pc'[id] = Advance(at)
             /\ b.errors = a.errors /\ b.error = a.error
             /\ b.status = a.status /\ b.completedAt = a.completedAt
             /\ IF at = "testing"
                  THEN d.cid = c.cid /\ d.result = Some(r)
                  ELSE d.cid = c.cid + 1 /\ d.result = None
        ELSE /\ pc'[id] = "prepare"
             /\ b.status = "running" /\ b.completedAt = a.completedAt
             /\ d.cid = c.cid /\ d.result = Some(r)
             /\ a.currentPhase \in {"building", "linting", "testing"}
             /\ b.errors = Append(a.errors,
                   [iteration |-> a.currentIteration,
                    phase |-> a.currentPhase,
                    error |-> IF at = "testing" THEN "0 tests failed"
                              ELSE IF r.output # "" THEN r.output
                              ELSE IF at = "build" THEN "Build failed"
                              ELSE "Lint failed",
                    timestamp |-> now])

\* C23: the promise of a runCommand call is settled once, by the first of the
\* close event, the error event of a failed spawn and the timer: with
\* success = (exit code is 0) and the captured output at the close, with
\* success = false at the other two.  A failed spawn is reported to the phase
\* as a failed command with a message, not as an exception.  Events of the
\* child after that leave the result, the job and the loop as they are.
C23_OneResultPerCommand ==
  /\ [](\A id \in Referenced :
          LET c == job[id].childProcess[1] IN
            /\ (c.result # None /\ c.result[1].success) =>
                  c.closed /\ c.exitCode = Some(0)
            /\ c.closed => c.result # None
            /\ c.exitCode = Some(ENOENT) =>
                  c.result = Some([success |-> FALSE,
                                   output |-> "Error: Command not found"])
            /\ pc[id] \in CommandPcs <=> c.result = None)
  /\ [][\A id \in Referenced :
          LET c == job[id].childProcess[1]
              d == job'[id].childProcess[1]
              a == job[id]
              b == job'[id]
          IN  /\ (d.cid = c.cid /\ c.result # None) => d.result = c.result
              /\ (c.result # None /\ LaterEvent(id)) =>
                    /\ d.cid = c.cid
                    /\ pc'[id] = pc[id]
                    /\ JobApartFromChild(b) = JobApartFromChild(a)
              /\ (c.result = None /\ onClose(id)) =>
                    SettledWith(id, [success |-> c.exitCode = Some(0),
                                     output |-> OutputText(c.output)])
              /\ (c.result = None /\ onTimeout(id)) =>
                    SettledWith(id, [success |-> FALSE,
                                     output |-> OutputText(c.output) \o TimeoutMarker])
              /\ onError(id) =>
                    /\ c.result = None
                    /\ SettledWith(id, [success |-> FALSE,
                                        output |-> "Error: Command not found"])]_vars

\* the timer fired on the lint command; the child then exited with code 0 and
\* its streams closed: the result is still the one of the timeout
C23_Witness ==
  \E id \in Referenced :
    LET c == job[id].childProcess[1] IN
      /\ c.closed /\ c.exitCode = Some(0)
      /\ c.result = Some([success |-> FALSE, output |-> "2 passed" \o TimeoutMarker])
      /\ job[id].errors # <<>>
      /\ job[id].errors[1].phase = "linting"
      /\ pc[id] = "prepare"

\* C24: when everything the loop of a job awaits eventually returns, the job
\* eventually has a terminal status (completed, failed or cancelled) and from
\* some point on never has another, whatever cancelJob, stop and the job timer
\* do in between.
C24_EveryJobEnds ==
  \A id \in LiveJobs :
    [](id \in Ids => <>[](id \in Ids /\ job[id].status \in Terminal))

\* a job that was cancelled while its loop ran: the loop went on to its end
C24_Witness ==
  \E id \in Ids :
    /\ pc[id] = "done"
    /\ job[id].status = "completed"
    /\ BagIn("Job cancelled by user", job[id].logs)
    /\ job[id].currentIteration = 2

\* stop() cancelled this job
StoppedByStop(j) == BagIn("Service stopped, job cancelled", j.logs)

\* C25: stop() moves every tracked job that is pending or running to cancelled,
\* with completedAt set and one line added to its log, and leaves every other
\* job as it is; a tracked job that stop() has cancelled is not pending or
\* running afterwards.
C25_StopEndsActiveJobs ==
  /\ [][stop =>
          \A id \in Ids :
            IF id \in jobs /\ job[id].status \in Active
              THEN job'[id] = [job[id] EXCEPT
                                 !.status = "cancelled",
                                 !.completedAt = Some(now),
                                 !.logs = @ (+) SetToBag({"Service stopped, job cancelled"})]
              ELSE job'[id] = job[id]]_vars
  /\ [](\A id \in jobs : StoppedByStop(job[id]) => job[id].status \notin Active)

\* the awaits inside an iteration
IterationAwaits ==
  {"generating", "generate_rejected", "install", "build", "linting", "testing",
   "validating"}

\* C26: while an iteration of a job is in progress the job's status is running,
\* unless the job was cancelled or timed out in between; and a step that sets
\* the status to completed finds it at running, never at pending.
C26_RunningWhileIterating ==
  /\ [](\A id \in Ids :
          (pc[id] \in IterationAwaits /\ job[id].completedAt = None)
            => job[id].status = "running")
  /\ [][\A id \in Ids :
          (job[id].status # "completed" /\ job'[id].status = "completed")
            => job[id].status = "running"]_vars

\* an exception is thrown inside an iteration of job id
IterationThrows(id) == generateRejected(id) \/ generateDone(id, "throw")

\* C27: a step in which an exception is thrown inside an iteration leaves the
\* job failed, with the message as its error and one ledger entry for the phase
\* that was active, and ends the loop: no further iteration starts, whatever
\* budget remains.
C27_ExceptionAbortsJob ==
  [][\A id \in Ids :
       IterationThrows(id) =>
         LET a == job[id]
             b == job'[id]
             n == Len(b.errors)
         IN  /\ b.status = "failed"
             /\ b.error # None
             /\ n = Len(a.errors) + 1
             /\ b.errors[n].phase = a.currentPhase
             /\ b.errors[n].error = b.error[1]
             /\ pc'[id] = "done"]_vars

\* the only failure of the run so far is that of the install command of the
\* first iteration of job id, whose build command is awaited now
InstallFailed(id) ==
  /\ pc[id] = "build"
  /\ faults = 1
  /\ job[id].currentIteration = 1
  /\ job[id].errors = <<>>

\* C28: when the build command returns, the build phase fails if the install
\* command before it or the build command itself ended without success, with
\* one ledger entry for the phase; it goes on to lint only when both succeeded.
C28_BuildFailsWhenAStepFails ==
  [][\A id \in Ids : \A o \in {CommandSuccess} \cup CommandFaults :
       (pc[id] = "build" /\ commandDone(id, o)) =>
         IF InstallFailed(id) \/ ~CommandResult(o).success
           THEN /\ pc'[id] \in {"prepare", "done"}
                /\ Len(job'[id].errors) = Len(job[id].errors) + 1
                /\ job'[id].errors[Len(job'[id].errors)].phase = "building"
           ELSE /\ pc'[id] = "linting"
                /\ job'[id].errors = job[id].errors]_vars

\* the number after which the summary of a test run says "failed"
FailedSaid(output) == IF output = "1 passed 1 failed" THEN 1 ELSE 0

\* C29: a completed job has test results with failed = 0.  The step in which the
\* test command returns records the parsed results and fails the phase when
\* the command did not exit with 0 or the parsed failed count is above 0; a
\* job is set to completed only in the step of a passing test command or of
\* the validation that follows it in the same iteration.
C29_CompletedMeansTestsPassed ==
  /\ [](\A id \in Ids :
          (job[id].status = "completed" \/ pc[id] = "validating")
            => job[id].testResults # None /\ job[id].testResults[1].failed = 0)
  /\ [][\A id \in Ids :
          LET a == job[id]
              b == job'[id]
          IN  /\ \A o \in {CommandSuccess, TestSilent} \cup TestFaults :
                   (pc[id] = "testing" /\ commandDone(id, o)) =>
                     /\ b.testResults # None
                     /\ b.testResults[1].failed = FailedSaid(o.output)
                     /\ IF o.kind # "exit" \/ o.code # 0 \/ FailedSaid(o.output) > 0
                          THEN /\ IterationEnded(id)
                               /\ b.errors[Len(b.errors)].phase = "testing"
                               /\ b.status # "completed"
                          ELSE /\ b.errors = a.errors
                               /\ pc'[id] = IF anthropic = None THEN "done"
                                                                ELSE "validating"
              /\ (a.status # "completed" /\ b.status = "completed") =>
                    /\ pc[id] \in {"testing", "validating"}
                    /\ b.currentIteration = a.currentIteration
              /\ pc[id] # "testing" => b.testResults = a.testResults]_vars

\* the tests of the first iteration failed although the command exited with 0;
\* the job completed in the second iteration, with failed = 0
C29_Witness ==
  \E id \in Ids :
    /\ job[id].status = "completed"
    /\ job[id].currentIteration = 2
    /\ Len(job[id].errors) = 1
    /\ job[id].errors[1].phase = "testing"
    /\ job[id].errors[1].error = "1 tests failed"
    /\ job[id].testResults = Some([passed |-> 2, failed |-> 0, duration |-> 0])

\* C30: a step leaves the error ledger of a job as it is or appends one entry
\* to it.  The step that ends an iteration in failure appends exactly one
\* entry, with the number of that iteration and the phase that was active;
\* the step that ends an iteration in success, and every other step, appends
\* none.  So the iteration numbers in the ledger increase strictly and the
\* ledger holds at most maxIterations entries.
C30_LedgerAppendOnly ==
  /\ [](\A id \in Ids :
          LET e == job[id].errors IN
            /\ Len(e) <= job[id].maxIterations
            /\ \A k \in 1..Len(e) : e[k].iteration \in 1..job[id].currentIteration
            /\ \A k \in 1..(Len(e) - 1) : e[k].iteration < e[k + 1].iteration)
  /\ [][\A id \in Ids :
          LET a == job[id]
              b == job'[id]
              n == Len(b.errors)
              ended == pc[id] \in IterationAwaits /\ pc'[id] \in {"prepare", "done"}
              succeeded == pc'[id] = "done" /\ b.status = "completed"
          IN  IF ended /\ ~succeeded
                THEN /\ n = Len(a.errors) + 1
                     /\ SubSeq(b.errors, 1, n - 1) = a.errors
                     /\ b.errors[n].iteration = a.currentIteration
                     /\ b.errors[n].phase = a.currentPhase
                     /\ pc[id] \in PhaseAwaits(b.errors[n].phase)
                ELSE b.errors = a.errors]_vars

\* three iterations of a job have failed and the fourth is in progress: the
\* ledger holds one entry for each of the iterations 1, 2 and 3
C30_Witness ==
  \E id \in Ids :
    /\ job[id].currentIteration = 4
    /\ pc[id] \in IterationAwaits
    /\ [k \in 1..Len(job[id].errors) |-> job[id].errors[k].iteration] = <<1, 2, 3>>

\* the child processes spawned for job id that are still running: the one the
\* job object references and the ones it referenced before
LiveChildren(id) ==
  {o.cid : o \in {x \in orphans : x.job = id}}
    \cup (IF job[id].childProcess # None /\ job[id].childProcess[1].alive
            THEN {job[id].childProcess[1].cid} ELSE {})

\* C31: at any time each job has at most one live child process; no child is
\* spawned for a job while an earlier child of that job is still running, also
\* after a command timeout or a cancellation whose SIGTERM was not yet obeyed.
C31_AtMostOneLiveChild ==
  \A id \in Ids : Cardinality(LiveChildren(id)) <= 1

\* C32: every job whose status is failed carries a non-empty error string,
\* whichever way it failed (iteration budget exhausted, exception, job timeout).
C32_FailedJobHasError ==
  \A id \in Ids :
    job[id].status = "failed" => job[id].error # None /\ job[id].error[1] # ""

\* C33: the rate limiter rejects a creation request only if 10 requests were
\* admitted (created a job) within the hour before it; a request preceded by
\* fewer than 10 admissions in the last hour never gets the rate-limit error.
C33_RejectsOnlyAfterTenAdmissions ==
  (last.op = "createPlugin" /\ last.result = "rate_limited")
    => Cardinality(CreatedIn(now - OneHour, now)) >= 10

\* the first of bun, pnpm, yarn, npm that is on the host, when there is one
Preferred ==
  IF "bun" \in tools THEN "bun"
  ELSE IF "pnpm" \in tools THEN "pnpm"
  ELSE IF "yarn" \in tools THEN "yarn"
  ELSE "npm"

\* the arguments of the logical command that the loop awaits at pc
LogicalArgs(at) ==
  CASE at = "install" -> <<"install">>
    [] at = "build" -> <<"run", "build">>
    [] at = "linting" -> <<"run", "lint">>
    [] at = "testing" -> <<"test">>

\* C34: for install, run <script> and test, runCommand invokes the first tool
\* on the host in the order bun, pnpm, yarn, npm with the arguments install,
\* run <script> and test; when none of the four is on the host it invokes npm
\* with the original arguments, and the failed spawn is reported as
\* success = false.
C34_FirstAvailableTool ==
  /\ \A id \in Ids :
       pc[id] \in CommandPcs =>
         /\ job[id].childProcess # None
         /\ job[id].childProcess[1].spawnfile = Preferred
         /\ job[id].childProcess[1].spawnargs = LogicalArgs(pc[id])
  /\ \A id \in Ids :
       (job[id].childProcess # None /\ tools = {}) =>
         /\ job[id].childProcess[1].spawnfile = "npm"
         /\ job[id].childProcess[1].result # None =>
              job[id].childProcess[1].result[1].success = FALSE

\* C34 witness: bun is missing, pnpm and npm are installed, and the test
\* command runs as pnpm test.
C34_Witness ==
  \E id \in Ids :
    /\ tools = {"pnpm", "npm"}
    /\ pc[id] = "testing"
    /\ job[id].childProcess[1].spawnfile = "pnpm"
    /\ job[id].childProcess[1].spawnargs = <<"test">>

\* cancelJob has cancelled job j
CancelledByUser(j) == BagIn("Job cancelled by user", j.logs)

\* C35: after cancelJob(id) on a pending or running job, the loop of that job
\* starts no further phase or iteration and spawns no further child process.
C35_CancelStopsTheLoop ==
  [][\A id \in Ids :
       CancelledByUser(job[id]) =>
         /\ job'[id].currentPhase = job[id].currentPhase
         /\ job'[id].currentIteration = job[id].currentIteration
         /\ job'[id].childCount = job[id].childCount]_vars

\* C36: a creation request that is rejected leaves jobCreationCount and
\* lastJobCreation unchanged; a request rejected for capacity does not use up
\* rate-limit budget.
C36_RejectionKeepsRateLimitState ==
  [][(last'.op = "createPlugin" /\ last'.result \in Rejections)
       => /\ jobCreationCount' = jobCreationCount
          /\ lastJobCreation' = lastJobCreation]_vars

\* C37: cleanupOldJobs never removes a pending or running job: every job it
\* removes from the job map is in a terminal status when it is removed.
C37_SweepRemovesOnlyEndedJobs ==
  [][\A id \in jobs \ jobs' : job[id].status \in Terminal]_vars

C39_CompletedJobHasNoError ==
  \A id \in Ids : job[id].status = "completed" => job[id].error = None

\* C40: the provider client that the generate and validate phases of a job
\* use is the one in effect when the job was created; a later createPlugin
\* call with a different apiKey does not change it.
C40_JobKeepsItsClient ==
  \A id \in Ids :
    job[id].clientUsed # None => job[id].clientUsed = job[id].clientAtCreation


=============================================================================
